---------------------------- MODULE Spec2Model ----------------------------
(***************************************************************************)
(* UniFiAPI (custom_components/ha_unifi_speedtest/api.py): the session,    *)
(* login cooldown, rate-limit backoff and request/retry engine, the health *)
(* snapshot, the speed-test status scan over its endpoint lists, and the   *)
(* routines that choose the primary WAN.                                   *)
(*                                                                         *)
(* Time.  The code compares datetime.now() with stored timestamps.  The    *)
(* model keeps, for every stored timestamp, the number of seconds elapsed  *)
(* since it (for login_cooldown_until: the seconds remaining), saturated   *)
(* at the largest value the code ever compares it with.  NoTime stands for *)
(* None.  Every sleep of the code and every idle gap between two public    *)
(* operations moves all of them together.  The two short clocks (the 5 s   *)
(* minimum interval) move by the exact seconds; the three long ones (the   *)
(* 30 min session, the 10 min 403 window, the 15..30 min cooldown) have a  *)
(* resolution of one minute: a sleep moves them by its whole minutes.      *)
(*                                                                         *)
(* rate_limit_backoff is a float in the code; the model keeps it in        *)
(* sixteenths of a second, which represents 30 * 1.5^k exactly up to the   *)
(* cap (30, 45, 67.5, 101.25, 151.875, 227.8125, 300).                     *)
(***************************************************************************)
EXTENDS Integers, Naturals, Sequences, FiniteSets, TLC

(* ------------------------------ bounds --------------------------------- *)
\* the largest max_retries a caller of _make_request passes
MaxRetries == 4
\* the most consecutive failed logins the backend is made to produce
MaxFailedLogins == 6
\* threads calling into one client in the concurrent specification
NumCallers == 2
\* the longest routing table, network configuration and WAN dictionary given
\* to the primary-WAN routines
MaxRoutes == 2
MaxConfigs == 2
MaxWans == 2
\* the longest data['data'] of a speed-test history endpoint
MaxEntries == 2

(* ------------------------ program constants ---------------------------- *)
login_valid_duration == 1800
max_consecutive_403s == 3
min_request_interval == 5
max_failed_logins == 3

NoTime == -1

Callers == 1..NumCallers
\* idle time between two public operations, in seconds
IdleGaps == {300}
\* random.uniform(0.8, 1.2), in percent: both ends and the middle
Jitters == {80, 100, 120}
\* outcomes of the login POST: accepted, refused with 403, any other failure
LoginOutcomes == {"ok", "403", "fail"}
\* answers to the target request: 200, another non-error status, 403, 401,
\* another HTTP error status, a timeout or connection error
Responses == {"200", "204", "403", "401", "500", "net"}

Min(a, b) == IF a <= b THEN a ELSE b
Max(a, b) == IF a >= b THEN a ELSE b
\* seconds -> sixteenths of a second
Secs(n) == n * 16

VARIABLES
    \* UniFiAPI fields
    last_login,            \* seconds since _last_login, NoTime = None
    last_403_time,         \* seconds since _last_403_time
    last_request_time,     \* seconds since _last_request_time
    login_cooldown_until,  \* seconds until _login_cooldown_until (0 = passed)
    rate_limit_backoff,    \* sixteenths of a second
    consecutive_403s,
    failed_login_count,
    login_lock,            \* 0 = free, else the caller holding _login_lock
    cookies,               \* session.cookies holds the cookies of a login
    \* one entry per calling thread
    pc,                    \* position in the code
    op,                    \* the public operation in progress
    max_retries,           \* _make_request's parameter
    attempt,               \* _make_request's loop variable
    login_from,            \* the call site login() returns or raises to
    login_result,          \* how the login() in progress ended
    result,                \* what the public operation returned or raised
    \* observation
    last_net,              \* seconds since the last network call of the client
    sends,                 \* target requests sent by the current _make_request
    n403,                  \* 403 answers it received
    clean,                 \* only 200/403 answers and no failed login so far
    lrt_set,               \* _last_request_time was assigned during the call
    called,                \* the thread made its call (concurrent specification)
    \* constructor arguments
    controller_type,       \* "udm" or "controller"
    enable_multi_wan,
    \* get_health_status
    health,                \* <<the dictionary returned>>, <<>> outside the call
    \* get_speed_test_status, one entry per calling thread
    stage,                 \* the endpoint list being tried
    endpoint,              \* index into endpoints_to_try
    wan_found,             \* wan_interfaces is not empty
    usable,                \* a payload gave at least one measurement record
    status_result,         \* what get_speed_test_status returned or raised
    \* primary-WAN determination
    wan_layer,             \* the routine that is applied to the inputs
    routing_info,          \* list of routes, <<>> for None
    network_config,        \* list of network entries, <<>> for None
    wan_interfaces,        \* the dictionary, as the list of its values
    primary_wan,           \* the wan_key returned, <<>> for None
    wan_pc,                \* "input" before and "done" after the routine
    \* response normalization (the endpoint loops of get_speed_test_status)
    answers,               \* what the backend has for each endpoint of the list
    norm,                  \* the locals of the loop and the result returned
    \* two calls of get_speed_test_status against one backend
    twice,                 \* the backend, and what the calls returned
    \* SpeedTestTracker (sensor.py)
    speed_test_tracker,    \* the counters and the failure_reasons list
    store,                 \* the Store: the data saved, the tracker loaded
    runs,                  \* the scheduled runner and the manual handler
    \* the polling interval (config_flow.py, sensor.py, const.py)
    polling,               \* the config entry and what is derived from it
    \* DataUpdateCoordinator (sensor.py lines 46-110)
    coordinator,           \* its data, and where async_update_data is
    \* Home Assistant (__init__.py)
    hass,                  \* hass.data[DOMAIN], the services, the entries
    \* the sensor platform (sensor.py)
    entities               \* the multi-WAN sensors that were added

apiVars == <<last_login, last_403_time, last_request_time, login_cooldown_until,
             rate_limit_backoff, consecutive_403s, failed_login_count,
             login_lock, cookies>>
callVars == <<pc, op, max_retries, attempt, login_from, login_result, result>>
obsVars == <<last_net, sends, n403, clean, lrt_set>>
cfgVars == <<controller_type, enable_multi_wan>>
statusVars == <<stage, endpoint, wan_found, usable, status_result>>
\* what login() and _make_request leave alone
wanVars == <<wan_layer, routing_info, network_config, wan_interfaces,
             primary_wan, wan_pc>>
normVars == <<answers, norm>>
\* the state of the routines that are followed in specifications of their own
trackVars == <<speed_test_tracker, store, runs>>
sideVars ==
    <<normVars, twice, trackVars, polling, coordinator, hass, entities>>
restVars == <<cfgVars, health, statusVars, wanVars, sideVars>>
vars == <<apiVars, callVars, obsVars, called, restVars>>

(* ------------------------------ time ----------------------------------- *)
\* the whole minutes of d seconds, in seconds
Coarse(d) == (d \div 60) * 60
\* a timestamp's age after d more seconds, saturated at cap
Older(age, d, cap) == IF age = NoTime THEN NoTime ELSE Min(age + d, cap)
\* the seconds left until a deadline after d more seconds
Left(rem, d) == IF rem = NoTime THEN NoTime ELSE Max(rem - d, 0)

\* d seconds pass and nothing else happens to the clocks
Elapse(d) ==
    /\ last_login' = Older(last_login, Coarse(d), login_valid_duration)
    /\ last_403_time' = Older(last_403_time, Coarse(d), 600)
    /\ last_request_time' = Older(last_request_time, d, min_request_interval)
    /\ login_cooldown_until' = Left(login_cooldown_until, Coarse(d))
    /\ last_net' = Older(last_net, d, min_request_interval)

(* --------------------------- pure helpers ------------------------------ *)
\* _is_login_valid
IsLoginValidInclusive ==
    IF last_login = NoTime THEN FALSE ELSE last_login <= login_valid_duration
IsLoginValid ==
    IF last_login = NoTime THEN FALSE ELSE last_login < login_valid_duration

\* _is_in_login_cooldown: datetime.now() < _login_cooldown_until
IsInLoginCooldownInverted ==
    IF login_cooldown_until = NoTime THEN FALSE ELSE login_cooldown_until = 0
IsInLoginCooldown ==
    IF login_cooldown_until = NoTime THEN FALSE ELSE login_cooldown_until > 0

\* _enforce_rate_limit: the seconds it sleeps
RateLimitSleep ==
    IF last_request_time # NoTime /\ last_request_time < min_request_interval
    THEN min_request_interval - last_request_time
    ELSE 0

\* login, line 107: cooldown_minutes for a failure count
CooldownMinutes(count) == Min(30, 5 * count)

\* _handle_rate_limit, lines 196-203: the backoff from the previous one
BaseBackoffDoubling(prev, since403) ==
    IF since403 # NoTime
    THEN IF since403 < 600 THEN Min(prev * 2, Secs(300)) ELSE Secs(30)
    ELSE Secs(30)
BaseBackoffUncapped(prev, since403) ==
    IF since403 # NoTime
    THEN IF since403 < 600 THEN (prev * 3) \div 2 ELSE Secs(30)
    ELSE Secs(30)
BaseBackoff(prev, since403) ==
    IF since403 # NoTime
    THEN IF since403 < 600 THEN Min((prev * 3) \div 2, Secs(300)) ELSE Secs(30)
    ELSE Secs(30)

\* _handle_rate_limit, lines 206-209: the extended backoff for a counter
ExtendedBackoff(base, count) ==
    IF count > max_consecutive_403s
    THEN Max(base, Secs(Min(600, 60 * count)))
    ELSE base

\* _handle_rate_limit, lines 213-217: the whole seconds slept for a jitter
BackoffSleep(backoff, jitter) == (backoff * jitter) \div (16 * 100)

\* _make_request: "attempt < max_retries", the test of every retry branch
CanRetryOffByOne(a, r) == a < r - 1
CanRetryAlways(a, r) == TRUE
CanRetry(a, r) == a < r

\* line 230: for attempt in range(max_retries + 1): where the loop goes with
\* loop variable a; a loop that runs out leaves the function without a return
\* statement, which returns None (result stays "none")
LoopHead(a, r) == IF a <= r THEN "send" ELSE "ret"

(* ------------------------------- Init ---------------------------------- *)
\* UniFiAPI.__init__, every field but the two configuration arguments
InitClient ==
    /\ last_login = NoTime
    /\ last_403_time = NoTime
    /\ last_request_time = NoTime
    /\ login_cooldown_until = NoTime
    /\ rate_limit_backoff = 0
    /\ consecutive_403s = 0
    /\ failed_login_count = 0
    /\ login_lock = 0
    /\ cookies = FALSE
    /\ pc = [c \in Callers |-> "idle"]
    /\ op = [c \in Callers |-> "none"]
    /\ max_retries = [c \in Callers |-> 0]
    /\ attempt = [c \in Callers |-> 0]
    /\ login_from = [c \in Callers |-> "none"]
    /\ login_result = [c \in Callers |-> "none"]
    /\ result = [c \in Callers |-> "none"]
    /\ last_net = NoTime
    /\ sends = [c \in Callers |-> 0]
    /\ n403 = [c \in Callers |-> 0]
    /\ clean = [c \in Callers |-> TRUE]
    /\ lrt_set = [c \in Callers |-> FALSE]
    /\ called = [c \in Callers |-> FALSE]
    /\ health = <<>>
    /\ stage = [c \in Callers |-> "none"]
    /\ endpoint = [c \in Callers |-> 0]
    /\ wan_found = [c \in Callers |-> FALSE]
    /\ usable = [c \in Callers |-> FALSE]
    /\ status_result = [c \in Callers |-> "none"]

\* no primary-WAN determination is in progress
NoWanInput ==
    /\ wan_layer = "none"
    /\ routing_info = <<>>
    /\ network_config = <<>>
    /\ wan_interfaces = <<>>
    /\ primary_wan = <<>>
    /\ wan_pc = "none"

\* no normalization is in progress
NoNormInput ==
    /\ answers = <<>>
    /\ norm = [pc |-> "none"]

\* no pair of calls is followed
NoTwice == twice = [calls |-> 0]

\* SpeedTestTracker.__init__ (sensor.py lines 240-257).  The five datetime
\* fields (last_run_time, ...) hold wall-clock readings and are left out.
NoReason == "None"
NewTracker ==
    [total_attempts |-> 0, successful_runs |-> 0, failed_runs |-> 0,
     automated_attempts |-> 0, manual_attempts |-> 0,
     automated_successes |-> 0, manual_successes |-> 0,
     automated_failures |-> 0, manual_failures |-> 0,
     last_failure_reason |-> NoReason, failure_reasons |-> <<>>]

\* a tracker nothing was recorded in, and a Store nothing was saved to
NewStore == [pc |-> "empty", data |-> <<>>, fresh |-> <<>>]
\* the coroutines that call the tracker: the scheduled runner
\* (sensor.py line 112) and the manual service handler (__init__.py line 57)
RunHandlers == {"scheduled", "manual"}
\* no run in progress: pc is the await the coroutine is suspended at, done
\* the runs finished, calls the tracker calls of the latest run, data the
\* dictionary async_save built
IdleRun == [pc |-> "idle", done |-> 0, calls |-> <<>>, data |-> <<>>]

\* a tracker that was just built, its store and the two handlers
FreshTracking ==
    /\ speed_test_tracker = NewTracker
    /\ store = NewStore
    /\ runs = [h \in RunHandlers |-> IdleRun]

\* no tracker is followed
NoTracking ==
    /\ speed_test_tracker = <<>>
    /\ store = <<>>
    /\ runs = <<>>

\* no config entry is followed
NoPolling == polling = [pc |-> "none"]

\* a coordinator before its first refresh: data is None (sensor.py line 104);
\* seen tells that a poll has returned measurements
NewCoordinator == [pc |-> "idle", data |-> "none", seen |-> FALSE]
\* no coordinator is followed
NoCoordinator == coordinator = [pc |-> "none"]

\* Home Assistant before any entry is set up: data are the keys of
\* hass.data[DOMAIN], each the entry id and what is appended to it
NewHass == [data |-> {}, services |-> FALSE, loaded |-> {}]
\* no config entry is set up or unloaded
NoHass == hass = <<>>

\* no sensor is followed
NoEntities == entities = [pc |-> "none"]

NoSideInput ==
    /\ NoNormInput
    /\ NoTwice
    /\ NoTracking
    /\ NoPolling
    /\ NoCoordinator
    /\ NoHass
    /\ NoEntities

\* a client built with the default arguments (line 16); login() and
\* _make_request do the same steps for both controller types
Init ==
    /\ InitClient
    /\ controller_type = "udm"
    /\ enable_multi_wan = TRUE
    /\ NoWanInput
    /\ NoSideInput

(* ------------------------------ login() -------------------------------- *)
\* a public call of login()
CallLogin(c) ==
    /\ pc[c] = "idle"
    /\ pc' = [pc EXCEPT ![c] = "login"]
    /\ op' = [op EXCEPT ![c] = "login"]
    /\ login_from' = [login_from EXCEPT ![c] = "public"]
    /\ UNCHANGED <<apiVars, max_retries, attempt, login_result, result, obsVars>>

\* line 75: with self._login_lock
LockFreeAlways(c) == TRUE
LockFree(c) == login_lock = 0

LoginAcquire(c) ==
    /\ pc[c] = "login"
    /\ LockFree(c)
    /\ login_lock' = c
    /\ pc' = [pc EXCEPT ![c] = "login_check"]
    /\ UNCHANGED <<last_login, last_403_time, last_request_time,
                   login_cooldown_until, rate_limit_backoff, consecutive_403s,
                   failed_login_count, cookies, op, max_retries, attempt,
                   login_from, login_result, result, obsVars>>

\* lines 77-84: the cooldown check, whose raise is outside the try block, so
\* that it touches no counter and leaving the with block releases the lock;
\* otherwise self.session.cookies.clear()
LoginCheck(c) ==
    /\ pc[c] = "login_check"
    /\ IF IsInLoginCooldown
       THEN /\ login_result' = [login_result EXCEPT ![c] = "cooldown"]
            /\ login_lock' = 0
            /\ pc' = [pc EXCEPT ![c] = "login_done"]
            /\ UNCHANGED cookies
       ELSE /\ cookies' = FALSE
            /\ pc' = [pc EXCEPT ![c] = "login_enforce"]
            /\ UNCHANGED <<login_result, login_lock>>
    /\ UNCHANGED <<last_login, last_403_time, last_request_time,
                   login_cooldown_until, rate_limit_backoff, consecutive_403s,
                   failed_login_count, op, max_retries, attempt,
                   login_from, result, obsVars>>

\* _login_udm / _login_controller, lines 129 and 168: _enforce_rate_limit()
\* sleeps for the deficit and stamps _last_request_time
LoginEnforceMissing(c) ==
    /\ pc[c] = "login_enforce"
    /\ pc' = [pc EXCEPT ![c] = "login_post"]
    /\ UNCHANGED <<apiVars, op, max_retries, attempt, login_from, login_result,
                   result, obsVars>>
LoginEnforce(c) ==
    /\ pc[c] = "login_enforce"
    /\ LET d == RateLimitSleep IN
       /\ last_login' = Older(last_login, Coarse(d), login_valid_duration)
       /\ last_403_time' = Older(last_403_time, Coarse(d), 600)
       /\ login_cooldown_until' = Left(login_cooldown_until, Coarse(d))
       /\ last_net' = Older(last_net, d, min_request_interval)
    /\ last_request_time' = 0
    /\ lrt_set' = [lrt_set EXCEPT ![c] = TRUE]
    /\ pc' = [pc EXCEPT ![c] = "login_post"]
    /\ UNCHANGED <<rate_limit_backoff, consecutive_403s, failed_login_count,
                   login_lock, cookies, op, max_retries, attempt, login_from,
                   login_result, result, sends, n403, clean>>

\* lines 106-108: the cooldown opened once the failures reach the threshold
CooldownAfter(count) ==
    IF count >= max_failed_logins
    THEN CooldownMinutes(count) * 60
    ELSE login_cooldown_until

\* lines 130-142 / 169-176 (the POST and raise_for_status), then lines 91-94
\* on success and lines 98-112 on failure; the with block releases the lock
LoginPostKeepsCooldown(c, out) ==
    /\ pc[c] = "login_post"
    /\ out # "ok" => failed_login_count < MaxFailedLogins
    /\ last_net' = 0
    /\ IF out = "ok"
       THEN /\ cookies' = TRUE
            /\ last_login' = 0
            /\ failed_login_count' = 0
            /\ consecutive_403s' = 0
            /\ login_cooldown_until' = login_cooldown_until
            /\ login_result' = [login_result EXCEPT ![c] = "ok"]
       ELSE /\ cookies' = cookies
            /\ last_login' = NoTime
            /\ failed_login_count' = failed_login_count + 1
            /\ consecutive_403s' =
                   IF out = "403" THEN consecutive_403s + 1 ELSE consecutive_403s
            /\ login_cooldown_until' = CooldownAfter(failed_login_count + 1)
            /\ login_result' =
                   [login_result EXCEPT ![c] = IF out = "403" THEN "err403" ELSE "err"]
    /\ login_lock' = 0
    /\ pc' = [pc EXCEPT ![c] = "login_done"]
    /\ UNCHANGED <<last_403_time, last_request_time, rate_limit_backoff, op,
                   max_retries, attempt, login_from, result, sends, n403, clean,
                   lrt_set>>
LoginPost(c, out) ==
    /\ pc[c] = "login_post"
    /\ out # "ok" => failed_login_count < MaxFailedLogins
    /\ last_net' = 0
    /\ IF out = "ok"
       THEN /\ cookies' = TRUE
            /\ last_login' = 0
            /\ failed_login_count' = 0
            /\ consecutive_403s' = 0
            /\ login_cooldown_until' = NoTime
            /\ login_result' = [login_result EXCEPT ![c] = "ok"]
       ELSE /\ cookies' = cookies
            /\ last_login' = NoTime
            /\ failed_login_count' = failed_login_count + 1
            /\ consecutive_403s' =
                   IF out = "403" THEN consecutive_403s + 1 ELSE consecutive_403s
            /\ login_cooldown_until' = CooldownAfter(failed_login_count + 1)
            /\ login_result' =
                   [login_result EXCEPT ![c] = IF out = "403" THEN "err403" ELSE "err"]
    /\ login_lock' = 0
    /\ pc' = [pc EXCEPT ![c] = "login_done"]
    /\ UNCHANGED <<last_403_time, last_request_time, rate_limit_backoff, op,
                   max_retries, attempt, login_from, result, sends, n403, clean,
                   lrt_set>>

\* what a failed login() raises to its caller
LoginError(r) ==
    CASE r = "cooldown" -> "login_cooldown"
      [] r = "err403" -> "login_err403"
      [] OTHER -> "login_err"

\* line 264: "if attempt == max_retries - 1: raise", else the error is dropped
ReloginRaises(a, r) == a = r - 1

\* login() returns or raises to its call site:
\*   public      a direct call
\*   ensure      _ensure_authenticated, line 187 (from _make_request line 225)
\*   relogin403  _make_request lines 259-267
\*   relogin401  _make_request lines 274-280
LoginReturn(c) ==
    /\ pc[c] = "login_done"
    /\ LET ok == login_result[c] = "ok"
           from == login_from[c]
           raises == \/ from \in {"public", "ensure", "relogin401"} /\ ~ok
                     \/ from = "relogin403" /\ ~ok
                          /\ ReloginRaises(attempt[c], max_retries[c])
           d == IF from = "relogin401" /\ ok THEN 2 ELSE 0
       IN
       /\ Elapse(d)
       /\ clean' = [clean EXCEPT ![c] = clean[c] /\ ok]
       /\ IF raises
          THEN /\ result' = [result EXCEPT ![c] = LoginError(login_result[c])]
               /\ pc' = [pc EXCEPT ![c] = "ret"]
               /\ UNCHANGED attempt
          ELSE IF from = "public"
          THEN /\ result' = [result EXCEPT ![c] = "ok"]
               /\ pc' = [pc EXCEPT ![c] = "ret"]
               /\ UNCHANGED attempt
          ELSE IF from = "ensure"
          THEN /\ pc' = [pc EXCEPT ![c] = "enforce"]
               /\ UNCHANGED <<result, attempt>>
          ELSE /\ attempt' = [attempt EXCEPT ![c] = attempt[c] + 1]
               /\ pc' = [pc EXCEPT ![c] = LoopHead(attempt[c] + 1, max_retries[c])]
               /\ UNCHANGED result
    /\ UNCHANGED <<rate_limit_backoff, consecutive_403s, failed_login_count,
                   login_lock, cookies, op, max_retries, login_from,
                   login_result, sends, n403, lrt_set>>

(* --------------------------- _make_request ----------------------------- *)
\* a call of _make_request(method, endpoint, max_retries = r)
CallRequest(c, r) ==
    /\ pc[c] = "idle"
    /\ pc' = [pc EXCEPT ![c] = "ensure"]
    /\ op' = [op EXCEPT ![c] = "request"]
    /\ max_retries' = [max_retries EXCEPT ![c] = r]
    /\ attempt' = [attempt EXCEPT ![c] = 0]
    /\ UNCHANGED <<apiVars, login_from, login_result, result, obsVars>>

\* line 225, _ensure_authenticated (lines 183-187)
EnsureAuthenticated(c) ==
    /\ pc[c] = "ensure"
    /\ IF IsLoginValid
       THEN /\ pc' = [pc EXCEPT ![c] = "enforce"]
            /\ UNCHANGED login_from
       ELSE /\ pc' = [pc EXCEPT ![c] = "login"]
            /\ login_from' = [login_from EXCEPT ![c] = "ensure"]
    /\ UNCHANGED <<apiVars, op, max_retries, attempt, login_result, result,
                   obsVars>>

\* line 228, _enforce_rate_limit (lines 63-71)
EnforceRateLimit(c) ==
    /\ pc[c] = "enforce"
    /\ LET d == RateLimitSleep IN
       /\ last_login' = Older(last_login, Coarse(d), login_valid_duration)
       /\ last_403_time' = Older(last_403_time, Coarse(d), 600)
       /\ login_cooldown_until' = Left(login_cooldown_until, Coarse(d))
       /\ last_net' = Older(last_net, d, min_request_interval)
    /\ last_request_time' = 0
    /\ lrt_set' = [lrt_set EXCEPT ![c] = TRUE]
    /\ pc' = [pc EXCEPT ![c] = LoopHead(attempt[c], max_retries[c])]
    /\ UNCHANGED <<rate_limit_backoff, consecutive_403s, failed_login_count,
                   login_lock, cookies, op, max_retries, attempt, login_from,
                   login_result, result, sends, n403, clean>>

\* lines 240-246: a 200 answer resets the 403 counter and the backoff, when
\* the counter is above zero (the counter is then 0 in either case)
BackoffAfter200 ==
    IF consecutive_403s > 0 THEN 0 ELSE rate_limit_backoff

\* lines 236-293: the request is sent and its answer handled
SendTarget(c, resp) ==
    /\ pc[c] = "send"
    /\ sends' = [sends EXCEPT ![c] = sends[c] + 1]
    /\ n403' = [n403 EXCEPT ![c] = IF resp = "403" THEN n403[c] + 1 ELSE n403[c]]
    /\ clean' = [clean EXCEPT ![c] = clean[c] /\ resp \in {"200", "403"}]
    /\ LET retry == CanRetry(attempt[c], max_retries[c])
           \* line 289: time.sleep((attempt + 1) * 5) before the retry
           d == IF resp = "net" /\ retry THEN (attempt[c] + 1) * 5 ELSE 0
       IN
       /\ last_login' = Older(last_login, Coarse(d), login_valid_duration)
       /\ last_403_time' = Older(last_403_time, Coarse(d), 600)
       /\ last_request_time' = Older(last_request_time, d, min_request_interval)
       /\ login_cooldown_until' = Left(login_cooldown_until, Coarse(d))
       /\ last_net' = Older(0, d, min_request_interval)
       /\ CASE resp = "200" ->
                 /\ rate_limit_backoff' = BackoffAfter200
                 /\ consecutive_403s' = 0
                 /\ result' = [result EXCEPT ![c] = "resp200"]
                 /\ pc' = [pc EXCEPT ![c] = "ret"]
                 /\ UNCHANGED <<attempt, login_from>>
            [] resp = "204" ->
                 /\ result' = [result EXCEPT ![c] = "resp204"]
                 /\ pc' = [pc EXCEPT ![c] = "ret"]
                 /\ UNCHANGED <<rate_limit_backoff, consecutive_403s, attempt,
                                login_from>>
            [] resp = "403" ->
                 /\ IF retry
                    THEN /\ pc' = [pc EXCEPT ![c] = "handle_rate_limit"]
                         /\ UNCHANGED result
                    ELSE /\ pc' = [pc EXCEPT ![c] = "ret"]
                         /\ result' = [result EXCEPT ![c] = "err403"]
                 /\ UNCHANGED <<rate_limit_backoff, consecutive_403s, attempt,
                                login_from>>
            [] resp = "401" ->
                 /\ IF retry
                    THEN /\ pc' = [pc EXCEPT ![c] = "login"]
                         /\ login_from' = [login_from EXCEPT ![c] = "relogin401"]
                         /\ UNCHANGED result
                    ELSE /\ pc' = [pc EXCEPT ![c] = "ret"]
                         /\ result' = [result EXCEPT ![c] = "err401"]
                         /\ UNCHANGED login_from
                 /\ UNCHANGED <<rate_limit_backoff, consecutive_403s, attempt>>
            [] resp = "500" ->
                 /\ pc' = [pc EXCEPT ![c] = "ret"]
                 /\ result' = [result EXCEPT ![c] = "err500"]
                 /\ UNCHANGED <<rate_limit_backoff, consecutive_403s, attempt,
                                login_from>>
            [] resp = "net" ->
                 /\ IF retry
                    THEN /\ pc' = [pc EXCEPT ![c] =
                                       LoopHead(attempt[c] + 1, max_retries[c])]
                         /\ attempt' = [attempt EXCEPT ![c] = attempt[c] + 1]
                         /\ UNCHANGED result
                    ELSE /\ pc' = [pc EXCEPT ![c] = "ret"]
                         /\ result' = [result EXCEPT ![c] = "errnet"]
                         /\ UNCHANGED attempt
                 /\ UNCHANGED <<rate_limit_backoff, consecutive_403s, login_from>>
    /\ UNCHANGED <<failed_login_count, login_lock, cookies, op, max_retries,
                   login_result, lrt_set>>

\* _handle_rate_limit, lines 191-210: the counter and the backoff
HandleRateLimit(c) ==
    /\ pc[c] = "handle_rate_limit"
    /\ consecutive_403s' = consecutive_403s + 1
    /\ rate_limit_backoff' =
           ExtendedBackoff(BaseBackoff(rate_limit_backoff, last_403_time),
                           consecutive_403s + 1)
    /\ pc' = [pc EXCEPT ![c] = "backoff_sleep"]
    /\ UNCHANGED <<last_login, last_403_time, last_request_time,
                   login_cooldown_until, failed_login_count, login_lock, cookies,
                   op, max_retries, attempt, login_from, login_result, result,
                   obsVars>>

\* _handle_rate_limit, lines 213-218: the jittered sleep, then
\* _last_403_time = now, the time read at line 191 before the sleep; then
\* _make_request line 261 calls login()
BackoffWait(c, jitter) ==
    /\ pc[c] = "backoff_sleep"
    /\ LET d == BackoffSleep(rate_limit_backoff, jitter) IN
       /\ last_login' = Older(last_login, Coarse(d), login_valid_duration)
       /\ last_403_time' = Older(0, Coarse(d), 600)
       /\ last_request_time' = Older(last_request_time, d, min_request_interval)
       /\ login_cooldown_until' = Left(login_cooldown_until, Coarse(d))
       /\ last_net' = Older(last_net, d, min_request_interval)
    /\ login_from' = [login_from EXCEPT ![c] = "relogin403"]
    /\ pc' = [pc EXCEPT ![c] = "login"]
    /\ UNCHANGED <<rate_limit_backoff, consecutive_403s, failed_login_count,
                   login_lock, cookies, op, max_retries, attempt, login_result,
                   result, sends, n403, clean, lrt_set>>

\* the public operation returned or raised; its caller goes on
Return(c) ==
    /\ pc[c] = "ret"
    /\ op[c] \in {"login", "request"}
    /\ pc' = [pc EXCEPT ![c] = "idle"]
    /\ op' = [op EXCEPT ![c] = "none"]
    /\ max_retries' = [max_retries EXCEPT ![c] = 0]
    /\ attempt' = [attempt EXCEPT ![c] = 0]
    /\ login_from' = [login_from EXCEPT ![c] = "none"]
    /\ login_result' = [login_result EXCEPT ![c] = "none"]
    /\ result' = [result EXCEPT ![c] = "none"]
    /\ sends' = [sends EXCEPT ![c] = 0]
    /\ n403' = [n403 EXCEPT ![c] = 0]
    /\ clean' = [clean EXCEPT ![c] = TRUE]
    /\ lrt_set' = [lrt_set EXCEPT ![c] = FALSE]
    /\ UNCHANGED <<apiVars, last_net>>

\* time passes between two public operations
Tick(d) ==
    /\ \A c \in Callers : pc[c] = "idle"
    /\ Elapse(d)
    /\ UNCHANGED <<rate_limit_backoff, consecutive_403s, failed_login_count,
                   login_lock, cookies, callVars, sends, n403, clean, lrt_set>>

(* ------------------------- get_health_status --------------------------- *)
\* lines 1095-1102: the dictionary it builds; the two timestamps are given as
\* the model keeps them (seconds remaining, seconds elapsed, NoTime for None)
HealthStatusStale ==
    [can_connect |-> login_cooldown_until = NoTime,
     consecutive_403s |-> consecutive_403s,
     in_cooldown |-> login_cooldown_until # NoTime,
     cooldown_until |-> login_cooldown_until,
     last_login |-> last_login,
     failed_login_count |-> failed_login_count]
HealthStatus ==
    [can_connect |-> ~IsInLoginCooldown,
     consecutive_403s |-> consecutive_403s,
     in_cooldown |-> IsInLoginCooldown,
     cooldown_until |-> login_cooldown_until,
     last_login |-> last_login,
     failed_login_count |-> failed_login_count]

\* a call of get_health_status(): it reads the fields and returns
GetHealthStatusStep(c) ==
    /\ pc[c] = "idle"
    /\ pc' = [pc EXCEPT ![c] = "health_ret"]
    /\ op' = [op EXCEPT ![c] = "health"]
    /\ health' = <<HealthStatus>>
    /\ UNCHANGED <<apiVars, max_retries, attempt, login_from, login_result,
                   result, obsVars, called, cfgVars, wanVars, statusVars>>

GetHealthStatus(c) == GetHealthStatusStep(c) /\ UNCHANGED sideVars

\* its caller has the dictionary and goes on
HealthReturnStep(c) ==
    /\ pc[c] = "health_ret"
    /\ pc' = [pc EXCEPT ![c] = "idle"]
    /\ op' = [op EXCEPT ![c] = "none"]
    /\ health' = <<>>
    /\ UNCHANGED <<apiVars, max_retries, attempt, login_from, login_result,
                   result, obsVars, called, cfgVars, wanVars, statusVars>>

HealthReturn(c) == HealthReturnStep(c) /\ UNCHANGED sideVars

(* ----------------------- get_speed_test_status ------------------------- *)
\* what response.json() and the extraction make of a returned response:
\*   data       records from which a measurement or an interface is taken
\*   nodata     no 'data' key, or an empty list
\*   nowan      records, none of which is a WAN (a health list without 'www')
\*   malformed  json() or the extraction raises before anything is taken
\*   partial    (multi-WAN scan) an interface is stored in wan_interfaces,
\*              then a later record of the same payload raises
Payloads == {"data", "nodata", "nowan", "malformed", "partial"}

\* len(endpoints_to_try) of the list a stage walks: the status endpoints
\* (lines 487, 547, 606, 714), _get_udm_routing_info (872) and
\* _get_controller_routing_info (915), _get_udm_network_config (894)
NumEndpoints(stg) ==
    CASE stg = "scan" -> IF controller_type = "udm" THEN 3 ELSE 2
      [] stg = "routing" -> IF controller_type = "udm" THEN 3 ELSE 2
      [] stg = "netconf" -> 2
      [] OTHER -> 0

\* the list walked after stg, "none" when the result is built and returned:
\* lines 694 and 792 (primary WAN only when wan_interfaces is not empty),
\* lines 814-815 (UDM: routing, then network configuration), line 850
NextStage(stg, found) ==
    CASE stg = "scan" -> IF enable_multi_wan /\ found THEN "routing" ELSE "none"
      [] stg = "routing" -> IF controller_type = "udm" THEN "netconf" ELSE "none"
      [] OTHER -> "none"

\* a call of get_speed_test_status()
CallStatusStep(c) ==
    /\ pc[c] = "idle"
    /\ pc' = [pc EXCEPT ![c] = "status"]
    /\ op' = [op EXCEPT ![c] = "status"]
    /\ UNCHANGED <<apiVars, max_retries, attempt, login_from, login_result,
                   result, obsVars, called, cfgVars, wanVars, health, statusVars>>

CallStatus(c) == CallStatusStep(c) /\ UNCHANGED sideVars

\* lines 448-453: the request is skipped after too many 403s
StatusCheck(c) ==
    /\ pc[c] = "status"
    /\ IF consecutive_403s > max_consecutive_403s
       THEN /\ status_result' = [status_result EXCEPT ![c] = "empty"]
            /\ pc' = [pc EXCEPT ![c] = "status_ret"]
            /\ UNCHANGED <<stage, endpoint>>
       ELSE /\ stage' = [stage EXCEPT ![c] = "scan"]
            /\ endpoint' = [endpoint EXCEPT ![c] = 1]
            /\ pc' = [pc EXCEPT ![c] = "status_loop"]
            /\ UNCHANGED status_result
    /\ UNCHANGED <<apiVars, op, max_retries, attempt, login_from, login_result,
                   result, obsVars, called, cfgVars, sideVars, wanVars, health, wan_found, usable>>

\* "for endpoint in endpoints_to_try": the next endpoint is requested with
\* _make_request(self.session.get, endpoint, max_retries=1); after the last
\* one the next list is walked or the result is returned (lines 542, 601,
\* 700-710, 797-804)
StatusLoop(c) ==
    /\ pc[c] = "status_loop"
    /\ IF endpoint[c] <= NumEndpoints(stage[c])
       THEN /\ pc' = [pc EXCEPT ![c] = "ensure"]
            /\ max_retries' = [max_retries EXCEPT ![c] = 1]
            /\ attempt' = [attempt EXCEPT ![c] = 0]
            /\ UNCHANGED <<stage, endpoint, status_result>>
       ELSE LET nxt == NextStage(stage[c], wan_found[c]) IN
            /\ IF nxt = "none"
               THEN /\ status_result' =
                          [status_result EXCEPT
                              ![c] = IF wan_found[c] THEN "data" ELSE "empty"]
                    /\ pc' = [pc EXCEPT ![c] = "status_ret"]
                    /\ UNCHANGED <<stage, endpoint>>
               ELSE /\ stage' = [stage EXCEPT ![c] = nxt]
                    /\ endpoint' = [endpoint EXCEPT ![c] = 1]
                    /\ UNCHANGED <<pc, status_result>>
            /\ UNCHANGED <<max_retries, attempt>>
    /\ UNCHANGED <<apiVars, op, login_from, login_result, result, obsVars,
                   called, cfgVars, sideVars, wanVars, health, wan_found, usable>>

\* _make_request has returned or raised into the loop body: its frame is gone
RequestDone(c) ==
    /\ max_retries' = [max_retries EXCEPT ![c] = 0]
    /\ attempt' = [attempt EXCEPT ![c] = 0]
    /\ login_from' = [login_from EXCEPT ![c] = "none"]
    /\ login_result' = [login_result EXCEPT ![c] = "none"]
    /\ result' = [result EXCEPT ![c] = "none"]
    /\ sends' = [sends EXCEPT ![c] = 0]
    /\ n403' = [n403 EXCEPT ![c] = 0]
    /\ clean' = [clean EXCEPT ![c] = TRUE]
    /\ lrt_set' = [lrt_set EXCEPT ![c] = FALSE]

\* _make_request returned a response object
Responded(c) == result[c] \in {"resp200", "resp204"}

\* "except Exception as e: ... continue" (lines 537, 596, 689, 787, 886, 907,
\* 928): an error raised by _make_request goes on with the next endpoint
StatusRaisedPropagates(c) ==
    /\ pc[c] = "ret"
    /\ op[c] = "status"
    /\ ~Responded(c)
    /\ RequestDone(c)
    /\ status_result' = [status_result EXCEPT ![c] = "raised"]
    /\ pc' = [pc EXCEPT ![c] = "status_ret"]
    /\ UNCHANGED <<apiVars, op, last_net, called, cfgVars, sideVars, wanVars, health, stage,
                   endpoint, wan_found, usable>>
StatusRaised(c) ==
    /\ pc[c] = "ret"
    /\ op[c] = "status"
    /\ ~Responded(c)
    /\ RequestDone(c)
    /\ endpoint' = [endpoint EXCEPT ![c] = endpoint[c] + 1]
    /\ pc' = [pc EXCEPT ![c] = "status_loop"]
    /\ UNCHANGED <<apiVars, op, last_net, called, cfgVars, sideVars, wanVars, health, stage,
                   wan_found, usable, status_result>>

\* the loop body after _make_request returned a response (lines 497-535,
\* 556-594, 618-687, 725-785, 882-885, 903-906, 924-927)
StatusPayloadStep(c, payload) ==
    /\ pc[c] = "ret"
    /\ op[c] = "status"
    /\ Responded(c)
    /\ payload = "partial" => (enable_multi_wan /\ stage[c] = "scan")
    /\ RequestDone(c)
    /\ LET next == endpoint[c] + 1
           break == NumEndpoints(stage[c]) + 1
       IN
       IF stage[c] = "scan" /\ ~enable_multi_wan
       THEN \* legacy: the first endpoint with a record returns its result
            IF payload = "data"
            THEN /\ status_result' = [status_result EXCEPT ![c] = "data"]
                 /\ usable' = [usable EXCEPT ![c] = TRUE]
                 /\ pc' = [pc EXCEPT ![c] = "status_ret"]
                 /\ UNCHANGED <<endpoint, wan_found>>
            ELSE /\ endpoint' = [endpoint EXCEPT ![c] = next]
                 /\ pc' = [pc EXCEPT ![c] = "status_loop"]
                 /\ UNCHANGED <<status_result, usable, wan_found>>
       ELSE IF stage[c] = "scan"
       THEN \* multi-WAN: "if wan_interfaces: break" inside the data branch
            /\ wan_found' = [wan_found EXCEPT
                                 ![c] = @ \/ payload \in {"data", "partial"}]
            /\ usable' = [usable EXCEPT
                              ![c] = @ \/ payload \in {"data", "partial"}]
            /\ endpoint' = [endpoint EXCEPT ![c] =
                   IF \/ payload = "data"
                      \/ payload = "nowan" /\ wan_found[c]
                   THEN break ELSE next]
            /\ pc' = [pc EXCEPT ![c] = "status_loop"]
            /\ UNCHANGED status_result
       ELSE \* routing and configuration: the first non-empty list is returned
            /\ endpoint' = [endpoint EXCEPT ![c] =
                   IF payload \in {"data", "nowan"} THEN break ELSE next]
            /\ pc' = [pc EXCEPT ![c] = "status_loop"]
            /\ UNCHANGED <<status_result, usable, wan_found>>
    /\ UNCHANGED <<apiVars, op, last_net, called, cfgVars, wanVars, health, stage>>

StatusPayload(c, payload) ==
    StatusPayloadStep(c, payload) /\ UNCHANGED sideVars

\* get_speed_test_status has returned; its caller goes on
StatusReturnStep(c) ==
    /\ pc[c] = "status_ret"
    /\ pc' = [pc EXCEPT ![c] = "idle"]
    /\ op' = [op EXCEPT ![c] = "none"]
    /\ stage' = [stage EXCEPT ![c] = "none"]
    /\ endpoint' = [endpoint EXCEPT ![c] = 0]
    /\ wan_found' = [wan_found EXCEPT ![c] = FALSE]
    /\ usable' = [usable EXCEPT ![c] = FALSE]
    /\ status_result' = [status_result EXCEPT ![c] = "none"]
    /\ UNCHANGED <<apiVars, max_retries, attempt, login_from, login_result,
                   result, obsVars, called, cfgVars, wanVars, health>>

StatusReturn(c) == StatusReturnStep(c) /\ UNCHANGED sideVars

(* -------------------------- start_speed_test --------------------------- *)
\* len(payloads_to_try) (lines 366-369, 408-410)
NumPayloads == IF controller_type = "udm" THEN 2 ELSE 1

\* a call of start_speed_test()
CallStart(c) ==
    /\ pc[c] = "idle"
    /\ pc' = [pc EXCEPT ![c] = "start"]
    /\ op' = [op EXCEPT ![c] = "start"]
    /\ UNCHANGED <<apiVars, max_retries, attempt, login_from, login_result,
                   result, obsVars, called, cfgVars, sideVars, wanVars, health,
                   statusVars>>

\* a start_speed_test that goes to the controller whatever the counter is
StartCheckProceeds(c) ==
    /\ pc[c] = "start"
    /\ stage' = [stage EXCEPT ![c] = "start"]
    /\ endpoint' = [endpoint EXCEPT ![c] = 1]
    /\ pc' = [pc EXCEPT ![c] =
                 IF controller_type = "udm" THEN "start_csrf" ELSE "start_loop"]
    /\ UNCHANGED <<apiVars, op, max_retries, attempt, login_from, login_result,
                   result, obsVars, called, cfgVars, sideVars, wanVars, health,
                   wan_found, usable, status_result>>

\* lines 299-309: after too many 403s it raises; else the UDM variant asks
\* for a CSRF token first (line 359) and the payloads are tried in order
StartCheck(c) ==
    /\ pc[c] = "start"
    /\ IF consecutive_403s > max_consecutive_403s
       THEN /\ status_result' = [status_result EXCEPT ![c] = "raised"]
            /\ pc' = [pc EXCEPT ![c] = "start_ret"]
            /\ UNCHANGED <<stage, endpoint>>
       ELSE /\ stage' = [stage EXCEPT ![c] = "start"]
            /\ endpoint' = [endpoint EXCEPT ![c] = 1]
            /\ pc' = [pc EXCEPT ![c] =
                         IF controller_type = "udm" THEN "start_csrf"
                         ELSE "start_loop"]
            /\ UNCHANGED status_result
    /\ UNCHANGED <<apiVars, op, max_retries, attempt, login_from, login_result,
                   result, obsVars, called, cfgVars, sideVars, wanVars, health,
                   wan_found, usable>>

\* _get_csrf_token (lines 313-341): one GET sent with session.get itself, not
\* through _make_request; whatever it returns or raises, no field of the
\* client is assigned
StartCsrf(c) ==
    /\ pc[c] = "start_csrf"
    /\ pc' = [pc EXCEPT ![c] = "start_loop"]
    /\ last_net' = 0
    /\ UNCHANGED <<apiVars, op, max_retries, attempt, login_from, login_result,
                   result, sends, n403, clean, lrt_set, called, cfgVars,
                   sideVars, wanVars, health, statusVars>>

\* "for i, payload in enumerate(payloads_to_try)": the next payload is posted
\* with _make_request(..., max_retries=1); after the last one the last
\* exception is raised (lines 401, 441)
StartLoop(c) ==
    /\ pc[c] = "start_loop"
    /\ IF endpoint[c] <= NumPayloads
       THEN /\ pc' = [pc EXCEPT ![c] = "ensure"]
            /\ max_retries' = [max_retries EXCEPT ![c] = 1]
            /\ attempt' = [attempt EXCEPT ![c] = 0]
            /\ UNCHANGED status_result
       ELSE /\ status_result' = [status_result EXCEPT ![c] = "raised"]
            /\ pc' = [pc EXCEPT ![c] = "start_ret"]
            /\ UNCHANGED <<max_retries, attempt>>
    /\ UNCHANGED <<apiVars, op, login_from, login_result, result, obsVars,
                   called, cfgVars, sideVars, wanVars, health, stage, endpoint,
                   wan_found, usable>>

\* _make_request raised: the next payload (lines 395-398, 435-438)
StartRaised(c) ==
    /\ pc[c] = "ret"
    /\ op[c] = "start"
    /\ ~Responded(c)
    /\ RequestDone(c)
    /\ endpoint' = [endpoint EXCEPT ![c] = endpoint[c] + 1]
    /\ pc' = [pc EXCEPT ![c] = "start_loop"]
    /\ UNCHANGED <<apiVars, op, last_net, called, cfgVars, sideVars, wanVars,
                   health, stage, wan_found, usable, status_result>>

\* _make_request returned a response: the speed test was started (lines
\* 386-393, 426-433)
StartResponded(c) ==
    /\ pc[c] = "ret"
    /\ op[c] = "start"
    /\ Responded(c)
    /\ RequestDone(c)
    /\ status_result' = [status_result EXCEPT ![c] = "started"]
    /\ pc' = [pc EXCEPT ![c] = "start_ret"]
    /\ UNCHANGED <<apiVars, op, last_net, called, cfgVars, sideVars, wanVars,
                   health, stage, endpoint, wan_found, usable>>

\* start_speed_test has returned or raised; its caller goes on
StartReturn(c) ==
    /\ pc[c] = "start_ret"
    /\ pc' = [pc EXCEPT ![c] = "idle"]
    /\ op' = [op EXCEPT ![c] = "none"]
    /\ stage' = [stage EXCEPT ![c] = "none"]
    /\ endpoint' = [endpoint EXCEPT ![c] = 0]
    /\ status_result' = [status_result EXCEPT ![c] = "none"]
    /\ UNCHANGED <<apiVars, max_retries, attempt, login_from, login_result,
                   result, obsVars, called, cfgVars, sideVars, wanVars, health,
                   wan_found, usable>>

(* ------------------------- async_update_data --------------------------- *)
\* The update method of the coordinator (sensor.py lines 46-78).  data is
\* "none" for None, "empty" for a result whose fields are absent (download,
\* upload and ping None, or no interface), "data" for a result with values.
\* The coordinator sets its data to what the method returns.

\* "coordinator.data if coordinator.data else {...}" (lines 55, 59)
CachedData(data) == IF data = "none" THEN "empty" ELSE data

\* the health dictionary tells the poll to leave the client alone (lines 53,
\* 57)
PollSkips(snapshot) ==
    snapshot.in_cooldown \/ snapshot.consecutive_403s > 5

coordFrame ==
    UNCHANGED <<normVars, twice, trackVars, polling, hass, entities>>

\* the poll begins: get_health_status runs in the executor (line 51)
PollHealth ==
    /\ coordinator.pc = "idle"
    /\ GetHealthStatusStep(1)
    /\ coordinator' = [coordinator EXCEPT !.pc = "health"]
    /\ coordFrame

\* lines 53-59: cached data are returned
PollCached ==
    /\ coordinator.pc = "health"
    /\ pc[1] = "health_ret"
    /\ PollSkips(health[1])
    /\ HealthReturnStep(1)
    /\ coordinator' = [coordinator EXCEPT
                          !.pc = "idle", !.data = CachedData(@)]
    /\ coordFrame

\* line 61: get_speed_test_status runs in the executor
PollGoesOn ==
    /\ coordinator.pc = "health"
    /\ pc[1] = "health_ret"
    /\ ~PollSkips(health[1])
    /\ HealthReturnStep(1)
    /\ coordinator' = [coordinator EXCEPT !.pc = "call"]
    /\ coordFrame

PollStatus ==
    /\ coordinator.pc = "call"
    /\ CallStatusStep(1)
    /\ coordinator' = [coordinator EXCEPT !.pc = "status"]
    /\ coordFrame

\* what get_speed_test_status returned is returned (line 61); it raises
\* nothing (lines 455-466), so the except clause of lines 63-78 is not
\* entered
PollReturn ==
    /\ coordinator.pc = "status"
    /\ StatusReturnStep(1)
    /\ coordinator' = [coordinator EXCEPT
                          !.pc = "idle",
                          !.data = status_result[1],
                          !.seen = @ \/ status_result[1] = "data"]
    /\ coordFrame

(* --------------------- primary-WAN determination ----------------------- *)
\* Interface names and group labels are strings in the code; the model writes
\* them as tuples of letters, so that str.startswith is a prefix test and an
\* f-string is a concatenation.  A dictionary is the
\* list of its values in insertion order; an absent numeric field (None) is
\* NoValue, an absent name is the empty tuple.
NoValue == -1
NoKey == <<>>

\* str.startswith
StartsWith(str, prefix) ==
    /\ Len(prefix) <= Len(str)
    /\ SubSeq(str, 1, Len(prefix)) = prefix

\* the least index of a set of indices, 0 when it is empty: the element at
\* which a for loop stops that returns at the first element passing a test
FirstIndex(indices) ==
    IF indices = {} THEN 0
    ELSE CHOOSE i \in indices : \A j \in indices : i <= j

\* the letter '_' of a name, and the label 'WAN'
Underscore == 0
GroupWAN == <<7>>

\* wan_key = f"{interface_name}_{wan_group}" (lines 635, 671, 736, 769)
WanKey(wan) == wan.interface_name \o <<Underscore>> \o wan.wan_networkgroup

\* "for wan_key, wan_data in wan_interfaces.items(): if <test>: return
\* wan_key", for the set of the indices that pass the test
FirstWan(wans, passing) ==
    IF FirstIndex(passing) = 0 THEN NoKey ELSE WanKey(wans[FirstIndex(passing)])

\* lines 948-952: the match of the first pass over the routes
RouteMatch(interface, wan_interface) ==
    /\ wan_interface # <<>>
    /\ interface # <<>>
    /\ \/ interface = wan_interface
       \/ StartsWith(interface, wan_interface)
       \/ StartsWith(wan_interface, interface)

\* lines 971, 1006: interface.startswith(wan_interface)
PrefixMatch(interface, wan_interface) ==
    /\ wan_interface # <<>>
    /\ interface # <<>>
    /\ StartsWith(interface, wan_interface)

\* lines 995-998: the match of an entry flagged primary
PrimaryMatch(interface, wan_interface) ==
    /\ wan_interface # <<>>
    /\ interface # <<>>
    /\ \/ interface = wan_interface
       \/ StartsWith(interface, wan_interface)

\* what a routine gives back when an exception leaves its body
Raised == <<"raised">>

\* "try: ... except Exception as e: ... return None" (lines 936-978,
\* 982-1013, 1017-1047): an exception raised by the body is answered by None
CaughtMissing(value) == value
Caught(value) == IF value = Raised THEN NoKey ELSE value

\* an element of data['data'] that is not a dictionary: route.get (line 939)
\* raises AttributeError
BadRoute ==
    [network |-> "not a dict", netmask |-> "", interface |-> <<>>, metric |-> 0]

\* an entry whose 'purpose' is not a string: .lower() (line 985) raises
BadConfig ==
    [purpose_wan |-> FALSE, interface |-> <<>>, is_primary |-> FALSE,
     wan_type |-> "not a string"]

\* line 944
IsDefaultRoute(route) ==
    /\ route.network \in {"0.0.0.0", "default"}
    /\ route.netmask \in {"0.0.0.0", "0"}

\* _find_primary_from_routing, lines 934-978
FindPrimaryFromRouting(routes, wans) ==
    LET Hit(r) ==
            FirstWan(wans, {w \in 1..Len(wans) :
                              RouteMatch(routes[r].interface,
                                         wans[w].interface_name)})
        \* lines 938-954: the first default route that matches a WAN, or the
        \* first element at which route.get raises
        first == FirstIndex({r \in 1..Len(routes) :
                                \/ routes[r] = BadRoute
                                \/ IsDefaultRoute(routes[r]) /\ Hit(r) # NoKey})
        \* lines 957-966: the routes to 0.0.0.0 or default, sorted by metric
        \* with a stable sort, and the first of them
        defaults == {r \in 1..Len(routes) :
                        routes[r].network \in {"0.0.0.0", "default"}}
        best == FirstIndex({r \in defaults :
                               \A q \in defaults :
                                   routes[r].metric <= routes[q].metric})
    IN Caught(IF first # 0
              THEN IF routes[first] = BadRoute THEN Raised ELSE Hit(first)
              ELSE IF best # 0
              THEN FirstWan(wans, {w \in 1..Len(wans) :
                                     PrefixMatch(routes[best].interface,
                                                 wans[w].interface_name)})
              ELSE NoKey)

\* _find_primary_from_network_config, lines 984-1008: what one entry decides
ConfigAnswer(config, wans) ==
    LET primary ==
            FirstWan(wans, {w \in 1..Len(wans) :
                              PrimaryMatch(config.interface,
                                           wans[w].interface_name)})
        dhcp ==
            FirstWan(wans, {w \in 1..Len(wans) :
                              PrefixMatch(config.interface,
                                          wans[w].interface_name)})
    IN IF ~config.purpose_wan THEN NoKey
       ELSE IF config.is_primary /\ primary # NoKey THEN primary
       ELSE IF config.wan_type = "dhcp" THEN dhcp
       ELSE NoKey

\* _find_primary_from_network_config, lines 980-1013: the entries in order
FindPrimaryFromNetworkConfig(configs, wans) ==
    LET i == FirstIndex({k \in 1..Len(configs) :
                            \/ configs[k] = BadConfig
                            \/ ConfigAnswer(configs[k], wans) # NoKey})
    IN Caught(IF i = 0 THEN NoKey
              ELSE IF configs[i] = BadConfig THEN Raised
              ELSE ConfigAnswer(configs[i], wans))

\* lines 1026-1032
ScoreTimestampTen(wan) ==
    (IF wan.download # NoValue /\ wan.download > 0 THEN 10 ELSE 0)
    + (IF wan.upload # NoValue /\ wan.upload > 0 THEN 10 ELSE 0)
    + (IF wan.timestamp # NoValue /\ wan.timestamp # 0 THEN 10 ELSE 0)
Score(wan) ==
    (IF wan.download # NoValue /\ wan.download > 0 THEN 10 ELSE 0)
    + (IF wan.upload # NoValue /\ wan.upload > 0 THEN 10 ELSE 0)
    + (IF wan.timestamp # NoValue /\ wan.timestamp # 0 THEN 5 ELSE 0)

\* line 1039: x[2] or 0
TimestampOrZero(wan) == IF wan.timestamp = NoValue THEN 0 ELSE wan.timestamp

\* line 1039: the sort key (score, timestamp or 0) of a is at least that of b
KeyAtLeast(a, b) ==
    \/ Score(a) > Score(b)
    \/ Score(a) = Score(b) /\ TimestampOrZero(a) >= TimestampOrZero(b)

\* _find_primary_from_speedtest_data, lines 1015-1047: the WANs with a score
\* above 0, sorted in descending order with a stable sort, and the first
FindPrimaryFromSpeedtestData(wans) ==
    LET wan_with_data == {k \in 1..Len(wans) : Score(wans[k]) > 0}
        i == FirstIndex({k \in wan_with_data :
                            \A q \in wan_with_data :
                                KeyAtLeast(wans[k], wans[q])})
    IN Caught(IF i = 0 THEN NoKey ELSE WanKey(wans[i]))

\* lines 837-840 and 865-868: the rest of the layers, measurement scoring and
\* then list(wan_interfaces.keys())[0]
ScoringThenFirst(wans) ==
    IF FindPrimaryFromSpeedtestData(wans) # NoKey
    THEN FindPrimaryFromSpeedtestData(wans)
    ELSE WanKey(wans[1])

\* _determine_primary_wan_udm, lines 806-840
DeterminePrimaryWanUdmScoringFirst(routes, configs, wans) ==
    IF wans = <<>> THEN NoKey
    ELSE IF FindPrimaryFromRouting(routes, wans) # NoKey
    THEN FindPrimaryFromRouting(routes, wans)
    ELSE IF FindPrimaryFromSpeedtestData(wans) # NoKey
    THEN FindPrimaryFromSpeedtestData(wans)
    ELSE IF FindPrimaryFromNetworkConfig(configs, wans) # NoKey
    THEN FindPrimaryFromNetworkConfig(configs, wans)
    ELSE WanKey(wans[1])
DeterminePrimaryWanUdm(routes, configs, wans) ==
    IF wans = <<>> THEN NoKey
    ELSE IF FindPrimaryFromRouting(routes, wans) # NoKey
    THEN FindPrimaryFromRouting(routes, wans)
    ELSE IF FindPrimaryFromNetworkConfig(configs, wans) # NoKey
    THEN FindPrimaryFromNetworkConfig(configs, wans)
    ELSE ScoringThenFirst(wans)

\* _determine_primary_wan_controller, lines 842-868
DeterminePrimaryWanController(routes, wans) ==
    IF wans = <<>> THEN NoKey
    ELSE IF FindPrimaryFromRouting(routes, wans) # NoKey
    THEN FindPrimaryFromRouting(routes, wans)
    ELSE ScoringThenFirst(wans)

\* the routine wan_layer names is applied to the inputs
ApplyWan(layer, value) ==
    /\ wan_pc = "input"
    /\ wan_layer = layer
    /\ primary_wan' = value
    /\ wan_pc' = "done"
    /\ UNCHANGED <<apiVars, callVars, obsVars, called, cfgVars, sideVars, health,
                   statusVars, wan_layer, routing_info, network_config,
                   wan_interfaces>>

FindFromRouting ==
    ApplyWan("routing", FindPrimaryFromRouting(routing_info, wan_interfaces))

FindFromNetworkConfig ==
    ApplyWan("netconf",
             FindPrimaryFromNetworkConfig(network_config, wan_interfaces))

FindFromSpeedtestData ==
    ApplyWan("speedtest", FindPrimaryFromSpeedtestData(wan_interfaces))

\* lines 694 and 792: the routine of the configured controller type
DeterminePrimaryWan ==
    ApplyWan("determine",
             IF controller_type = "udm"
             THEN DeterminePrimaryWanUdm(routing_info, network_config,
                                         wan_interfaces)
             ELSE DeterminePrimaryWanController(routing_info, wan_interfaces))

(* ------------------------ response normalization ----------------------- *)
\* A raw entry of data['data'] is a record of the keys the code reads.  A key
\* that is not in the dictionary has the value Absent (a name: the empty
\* tuple), a key whose value is null has NoValue, and Junk is a value float()
\* raises on.  The keys 'wan_group', 'wan_interface', 'name' and 'status' are
\* in none of the entries.
Absent == -2
Junk == -3

\* dict.get(key)
Get(value) == IF value = Absent THEN NoValue ELSE value

\* dict.get(primary, dict.get(fallback))
GetEither(primary, fallback) == IF primary # Absent THEN primary ELSE Get(fallback)

\* _safe_float (lines 1049-1056) and the conversions of lines 527-532, 586-591
SafeFloat(value) == IF value \in {NoValue, Junk} THEN NoValue ELSE value

\* the subsystem names 'www', 'wan2' and 'lan', and str.upper of a name
SubWww == <<3>>
SubWan2 == <<4>>
SubLan == <<5>>
Upper(name) == [k \in 1..Len(name) |-> IF name[k] = 4 THEN 8 ELSE name[k]]

\* lines 653-659 and 754-760
IsWanSubsystem(name) == name \in {SubWww, SubWan2}

\* an entry with the given names, the values mbps of download_mbps,
\* upload_mbps, latency_ms and the values xput of xput_down, xput_up,
\* speedtest_ping
Raw(subsystem, interface_name, interface, group, mbps, xput, time) ==
    [subsystem |-> subsystem, interface_name |-> interface_name,
     interface |-> interface, wan_networkgroup |-> group,
     download_mbps |-> mbps[1], upload_mbps |-> mbps[2],
     latency_ms |-> mbps[3],
     xput_down |-> xput[1], xput_up |-> xput[2], speedtest_ping |-> xput[3],
     time |-> time]

\* an element of data['data'] that is not a dictionary: entry.get raises
BadEntry ==
    Raw(<<>>, <<>>, <<>>, <<>>, <<Junk, Junk, Junk>>, <<Junk, Junk, Junk>>,
        Junk)

\* for each endpoint of endpoints_to_try, whether the test "'speedtest' in
\* endpoint (or 'v2/api' in endpoint)" holds for it (lines 487-491 and 501,
\* 547-550 and 559, 606-610 and 623, 714-717 and 728)
EndpointKinds ==
    IF enable_multi_wan
    THEN IF controller_type = "udm"
         THEN <<"history", "history", "health">>
         ELSE <<"history", "health">>
    ELSE IF controller_type = "udm"
         THEN <<"health", "history", "history">>
         ELSE <<"health", "history">>

\* lines 504-508 (UDM: each field by its primary name, then by the other
\* name) and 562-566 (controller: one name)
LegacyFromHistory(entry) ==
    IF controller_type = "udm"
    THEN [download |->
              SafeFloat(GetEither(entry.download_mbps, entry.xput_down)),
          upload |-> SafeFloat(GetEither(entry.upload_mbps, entry.xput_up)),
          ping |->
              SafeFloat(GetEither(entry.latency_ms, entry.speedtest_ping))]
    ELSE [download |-> SafeFloat(Get(entry.xput_down)),
          upload |-> SafeFloat(Get(entry.xput_up)),
          ping |-> SafeFloat(Get(entry.speedtest_ping))]

\* lines 518-522 and 576-581 (without 'status')
LegacyFromHealth(www_data) ==
    [download |-> SafeFloat(Get(www_data.xput_down)),
     upload |-> SafeFloat(Get(www_data.xput_up)),
     ping |-> SafeFloat(Get(www_data.speedtest_ping))]

\* lines 542 and 601
AllAbsent == [download |-> NoValue, upload |-> NoValue, ping |-> NoValue]

\* data['data'][-1]
LastEntryFirst(data) == data[1]
LastEntry(data) == data[Len(data)]

\* one pass of the legacy loop body (lines 494-539, 553-598) over what the
\* backend has for the endpoint: <<the result returned>>, or <<>> when the
\* loop goes on with the next endpoint
LegacyAnswer(kind, answer) ==
    IF ~answer.ok \/ answer.data = <<>> THEN <<>>
    ELSE IF kind = "history"
    THEN IF LastEntry(answer.data) = BadEntry THEN <<>>
         ELSE <<LegacyFromHistory(LastEntry(answer.data))>>
    ELSE LET stop == FirstIndex({k \in 1..Len(answer.data) :
                                    \/ answer.data[k] = BadEntry
                                    \/ answer.data[k].subsystem = SubWww})
         IN IF stop = 0 \/ answer.data[stop] = BadEntry THEN <<>>
            ELSE <<LegacyFromHealth(answer.data[stop])>>

\* the name under which a history entry is stored, <<>> when it is skipped
\* (lines 626-634, 731-735)
HistoryName(entry) ==
    IF entry.interface_name # <<>> THEN entry.interface_name
    ELSE entry.interface

\* the value stored for a history entry (lines 637-646, 738-747)
WanFromHistory(entry) ==
    [interface_name |-> HistoryName(entry),
     wan_networkgroup |->
         IF entry.wan_networkgroup = <<>> THEN GroupWAN
         ELSE entry.wan_networkgroup,
     download |->
         IF controller_type = "udm" THEN SafeFloat(Get(entry.download_mbps))
         ELSE SafeFloat(GetEither(entry.xput_down, entry.download_mbps)),
     upload |->
         IF controller_type = "udm" THEN SafeFloat(Get(entry.upload_mbps))
         ELSE SafeFloat(GetEither(entry.xput_up, entry.upload_mbps)),
     ping |->
         IF controller_type = "udm" THEN SafeFloat(Get(entry.latency_ms))
         ELSE SafeFloat(GetEither(entry.speedtest_ping, entry.latency_ms)),
     timestamp |-> Get(entry.time)]

\* the value stored for a WAN subsystem (lines 663-683, 763-781)
WanFromHealth(subsystem) ==
    [interface_name |->
         IF subsystem.interface # <<>> THEN subsystem.interface
         ELSE subsystem.subsystem,
     wan_networkgroup |->
         IF subsystem.subsystem = SubWww THEN GroupWAN
         ELSE Upper(subsystem.subsystem),
     download |-> SafeFloat(Get(subsystem.xput_down)),
     upload |-> SafeFloat(Get(subsystem.xput_up)),
     ping |-> SafeFloat(Get(subsystem.speedtest_ping)),
     timestamp |-> NoValue]

\* wan_interfaces[wan_key] = value: a key that is in the dictionary keeps its
\* place and gets the new value, a new key goes to the end
PutAppends(dict, value) == Append(dict, value)
Put(dict, value) ==
    LET at == FirstIndex({k \in 1..Len(dict) : WanKey(dict[k]) = WanKey(value)})
    IN IF at = 0 THEN Append(dict, value) ELSE [dict EXCEPT ![at] = value]

\* one turn of "for entry in data['data']" (lines 625-646, 649-683, 730-747,
\* 750-781)
StoreEntry(dict, entry, kind) ==
    IF kind = "history"
    THEN IF HistoryName(entry) = <<>> THEN dict
         ELSE Put(dict, WanFromHistory(entry))
    ELSE IF IsWanSubsystem(entry.subsystem) THEN Put(dict, WanFromHealth(entry))
         ELSE dict

\* the loop over data['data'] from entry k on: the dictionary it leaves, and
\* whether an entry raised
RECURSIVE StoreEntries(_, _, _, _)
StoreEntries(dict, data, k, kind) ==
    IF k > Len(data) THEN [wans |-> dict, raised |-> FALSE]
    ELSE IF data[k] = BadEntry THEN [wans |-> dict, raised |-> TRUE]
    ELSE StoreEntries(StoreEntry(dict, data[k], kind), data, k + 1, kind)

\* lines 700-707 and 797-804 (without the constant entries)
MultiResult(wans, primary) ==
    [wan_interfaces |-> wans, total_interfaces |-> Len(wans),
     primary_wan |-> primary]

\* lines 685-687 and 783-785: "if wan_interfaces: break" stands at the end of
\* the branch for a payload with data, inside the try
BreakAfterRaise(has_data, raised, wans) == has_data /\ wans # <<>>
Break(has_data, raised, wans) == has_data /\ ~raised /\ wans # <<>>

\* one turn of "for endpoint in endpoints_to_try": the request is made and
\* what comes back is worked on.  answers[i].ok is FALSE when _make_request
\* or response.json() raises.
NormRequest ==
    /\ norm.pc = "scan"
    /\ norm.endpoint <= Len(answers)
    /\ LET i == norm.endpoint
           kind == EndpointKinds[i]
           asked == Append(norm.requested, i)
       IN
       IF ~enable_multi_wan
       THEN /\ norm' =
                  IF LegacyAnswer(kind, answers[i]) # <<>>
                  THEN [pc |-> "done", endpoint |-> i, requested |-> asked,
                        result |-> LegacyAnswer(kind, answers[i])]
                  ELSE [norm EXCEPT !.endpoint = i + 1, !.requested = asked]
            /\ UNCHANGED wan_interfaces
       ELSE LET \* lines 620, 727
                has_data == answers[i].ok /\ answers[i].data # <<>>
                st == IF has_data
                      THEN StoreEntries(wan_interfaces, answers[i].data, 1, kind)
                      ELSE [wans |-> wan_interfaces, raised |-> FALSE]
                break == Break(has_data, st.raised, st.wans)
            IN /\ wan_interfaces' = st.wans
               /\ norm' = [norm EXCEPT
                              !.endpoint = IF break THEN Len(answers) + 1
                                           ELSE i + 1,
                              !.requested = asked]
    /\ UNCHANGED <<apiVars, callVars, obsVars, called, cfgVars, health,
                   statusVars, wan_layer, routing_info, network_config,
                   primary_wan, wan_pc, answers, twice, trackVars, polling,
                   coordinator, hass, entities>>

\* after the loop: lines 541-542, 600-601, 693-710, 791-804
NormFinish ==
    /\ norm.pc = "scan"
    /\ norm.endpoint > Len(answers)
    /\ IF ~enable_multi_wan
       THEN /\ norm' = [norm EXCEPT !.pc = "done", !.result = <<AllAbsent>>]
            /\ UNCHANGED primary_wan
       ELSE LET primary ==
                    IF controller_type = "udm"
                    THEN DeterminePrimaryWanUdm(routing_info, network_config,
                                                wan_interfaces)
                    ELSE DeterminePrimaryWanController(routing_info,
                                                       wan_interfaces)
            IN /\ primary_wan' = primary
               /\ norm' = [norm EXCEPT
                              !.pc = "done",
                              !.result = <<MultiResult(wan_interfaces,
                                                       primary)>>]
    /\ UNCHANGED <<apiVars, callVars, obsVars, called, cfgVars, health,
                   statusVars, wan_layer, routing_info, network_config,
                   wan_interfaces, wan_pc, answers, twice, trackVars, polling,
                   coordinator, hass, entities>>

(* --------------------------- specifications ---------------------------- *)
\* caller c starts a public call; _make_request gets a budget of budgets
Start(c, budgets) ==
    \/ CallLogin(c)
    \/ \E r \in budgets : CallRequest(c, r)

\* caller c takes the next step of the call it is in
Inside(c) ==
    \/ LoginAcquire(c)
    \/ LoginCheck(c)
    \/ LoginEnforce(c)
    \/ \E out \in LoginOutcomes : LoginPost(c, out)
    \/ LoginReturn(c)
    \/ EnsureAuthenticated(c)
    \/ EnforceRateLimit(c)
    \/ \E resp \in Responses : SendTarget(c, resp)
    \/ HandleRateLimit(c)
    \/ \E j \in Jitters : BackoffWait(c, j)
    \/ Return(c)

\* one caller: the host serializes the calls into the client
Next ==
    \/ /\ \/ \E d \in IdleGaps : Tick(d)
          \/ Start(1, 0..MaxRetries)
          \/ Inside(1)
       /\ UNCHANGED <<called, restVars>>
    \/ GetHealthStatus(1)
    \/ HealthReturn(1)

Spec == Init /\ [][Next]_vars

\* a call in progress goes on: every sleep of the code ends and every network
\* call returns or times out
LiveSpec == Spec /\ WF_vars(Inside(1) /\ UNCHANGED <<called, restVars>>)

\* several threads call into the same client at once, each with one call (a
\* manual trigger racing a scheduled poll); every _make_request call of the
\* repository passes max_retries = 1
NextConc ==
    \E c \in Callers :
        \/ /\ ~called[c]
           /\ Start(c, {1})
           /\ called' = [called EXCEPT ![c] = TRUE]
           /\ UNCHANGED restVars
        \/ /\ Inside(c)
           /\ UNCHANGED <<called, restVars>>

SpecConc == Init /\ [][NextConc]_vars

\* a client built with any configuration, used for login() (the setup of
\* the integration) and get_speed_test_status() (the polls)
InitStatus ==
    /\ InitClient
    /\ controller_type \in {"udm", "controller"}
    /\ enable_multi_wan \in BOOLEAN
    /\ NoWanInput
    /\ NoSideInput

NextStatus ==
    \/ /\ \/ \E d \in IdleGaps : Tick(d)
          \/ CallLogin(1)
          \/ Inside(1)
       /\ UNCHANGED <<called, restVars>>
    \/ CallStatus(1)
    \/ StatusCheck(1)
    \/ StatusLoop(1)
    \/ StatusRaised(1)
    \/ \E payload \in Payloads : StatusPayload(1, payload)
    \/ StatusReturn(1)

SpecStatus == InitStatus /\ [][NextStatus]_vars

\* one client used for everything the integration calls on it: login() at
\* setup, get_health_status(), get_speed_test_status() and start_speed_test()
NextPublic ==
    \/ /\ \/ \E d \in IdleGaps : Tick(d)
          \/ CallLogin(1)
          \/ Inside(1)
       /\ UNCHANGED <<called, restVars>>
    \/ GetHealthStatus(1)
    \/ HealthReturn(1)
    \/ CallStatus(1)
    \/ StatusCheck(1)
    \/ StatusLoop(1)
    \/ StatusRaised(1)
    \/ \E payload \in Payloads : StatusPayload(1, payload)
    \/ StatusReturn(1)
    \/ CallStart(1)
    \/ StartCheck(1)
    \/ StartCsrf(1)
    \/ StartLoop(1)
    \/ StartRaised(1)
    \/ StartResponded(1)
    \/ StartReturn(1)

SpecPublic == InitStatus /\ [][NextPublic]_vars

\* the polls of the coordinator on a client that login() was called on at
\* setup, with idle time between them.  A response the backend gives holds
\* measurements: a poll is left without values only by an error, a 403, a
\* timeout, a refused login or the skip of the client
NextCoordinator ==
    \/ /\ coordinator.pc \in {"idle", "status"}
       /\ \/ \E d \in IdleGaps : Tick(d)
          \/ CallLogin(1)
          \/ Inside(1)
       /\ UNCHANGED <<called, restVars>>
    \/ PollHealth
    \/ PollCached
    \/ PollGoesOn
    \/ PollStatus
    \/ StatusCheck(1)
    \/ StatusLoop(1)
    \/ StatusRaised(1)
    \/ StatusPayload(1, "data")
    \/ PollReturn

InitCoordinator ==
    /\ InitClient
    /\ controller_type \in {"udm", "controller"}
    /\ enable_multi_wan \in BOOLEAN
    /\ NoWanInput
    /\ NoNormInput
    /\ NoTwice
    /\ NoTracking
    /\ NoPolling
    /\ coordinator = NewCoordinator
    /\ NoHass
    /\ NoEntities

SpecCoordinator == InitCoordinator /\ [][NextCoordinator]_vars

\* run_scheduled_speedtest leaves the client alone (sensor.py lines 119-129)
RunnerSkips(snapshot) ==
    snapshot.in_cooldown \/ snapshot.consecutive_403s > 3

\* run_scheduled_speedtest found the client healthy and calls
\* start_speed_test (sensor.py lines 116-138)
ScheduledStart ==
    /\ coordinator.pc = "idle"
    /\ ~RunnerSkips(HealthStatus)
    /\ CallStart(1)

\* the steps of the polling cycle: the polls of the coordinator and the
\* scheduled runs, on a client that nothing else calls
PollingCycle ==
    \/ /\ coordinator.pc \in {"idle", "status"}
       /\ Inside(1)
       /\ UNCHANGED <<called, restVars>>
    \/ PollHealth
    \/ PollCached
    \/ PollGoesOn
    \/ PollStatus
    \/ StatusCheck(1)
    \/ StatusLoop(1)
    \/ StatusRaised(1)
    \/ StatusPayload(1, "data")
    \/ PollReturn
    \/ ScheduledStart
    \/ StartCheck(1)
    \/ StartCsrf(1)
    \/ StartLoop(1)
    \/ StartRaised(1)
    \/ StartResponded(1)
    \/ StartReturn(1)

NextRecover ==
    \/ /\ coordinator.pc \in {"idle", "status"}
       /\ \E d \in IdleGaps : Tick(d)
       /\ UNCHANGED <<called, restVars>>
    \/ PollingCycle

\* the timers of Home Assistant keep firing and every call in the executor
\* goes on: the polling cycle never stops
SpecRecover ==
    InitCoordinator /\ [][NextRecover]_vars /\ WF_vars(PollingCycle)


\* The primary-WAN routines are functions of their arguments: each is applied
\* to every input of a bounded set.
SeqsUpTo(S, n) == UNION {[1..k -> S] : k \in 0..n}

\* three interface names, the second of which starts with the first
IfNames == {<<1>>, <<1, 1>>, <<2>>}

\* routes to 0.0.0.0 with and without the zero netmask, and another route
Routes ==
    [network : {"0.0.0.0"}, netmask : {"0.0.0.0", "255.0.0.0"},
     interface : IfNames \cup {<<>>}, metric : {100, 200}]
    \cup [network : {"10.0.0.0"}, netmask : {"255.0.0.0"},
          interface : {<<1>>, <<2>>}, metric : {100}]

\* entries whose purpose is a WAN, and another entry
Configs ==
    [purpose_wan : {TRUE}, interface : IfNames \cup {<<>>},
     is_primary : BOOLEAN, wan_type : {"dhcp", "static"}]
    \cup [purpose_wan : {FALSE}, interface : {<<1>>, <<2>>},
          is_primary : {TRUE}, wan_type : {"dhcp"}]

\* the values of wan_interfaces (lines 637-646)
Wans(downloads, uploads, timestamps) ==
    [interface_name : IfNames, wan_networkgroup : {GroupWAN},
     download : downloads, upload : uploads, timestamp : timestamps]

\* dictionaries: the keys are distinct
Dicts(wans, n) ==
    {d \in SeqsUpTo(wans, n) :
        \A i, j \in 1..Len(d) : i # j => WanKey(d[i]) # WanKey(d[j])}

InitWan ==
    /\ InitClient
    /\ enable_multi_wan = TRUE
    /\ primary_wan = NoKey
    /\ wan_pc = "input"
    /\ NoSideInput
    /\ \/ /\ wan_layer = "routing"
          /\ controller_type = "udm"
          /\ routing_info \in SeqsUpTo(Routes \cup {BadRoute}, MaxRoutes)
          /\ network_config = <<>>
          /\ wan_interfaces \in
                 Dicts(Wans({NoValue}, {NoValue}, {NoValue}), MaxWans)
       \/ /\ wan_layer = "netconf"
          /\ controller_type = "udm"
          /\ routing_info = <<>>
          /\ network_config \in SeqsUpTo(Configs \cup {BadConfig}, MaxConfigs)
          /\ wan_interfaces \in
                 Dicts(Wans({NoValue}, {NoValue}, {NoValue}), MaxWans)
       \/ /\ wan_layer = "speedtest"
          /\ controller_type = "udm"
          /\ routing_info = <<>>
          /\ network_config = <<>>
          /\ wan_interfaces \in
                 Dicts(Wans({NoValue, 0, 50}, {NoValue, 50}, {NoValue, 0, 1, 2}),
                       MaxWans)
       \/ /\ wan_layer = "determine"
          /\ controller_type \in {"udm", "controller"}
          /\ routing_info \in SeqsUpTo(Routes \cup {BadRoute}, 1)
          /\ network_config \in SeqsUpTo(Configs \cup {BadConfig}, 1)
          /\ wan_interfaces \in
                 Dicts(Wans({NoValue, 50}, {NoValue}, {NoValue}), 2)

NextWan ==
    \/ FindFromRouting
    \/ FindFromNetworkConfig
    \/ FindFromSpeedtestData
    \/ DeterminePrimaryWan

SpecWan == InitWan /\ [][NextWan]_vars

\* The normalization is a function of the configuration and of what the
\* backend has for each endpoint: it is applied to every input of a bounded
\* set.
NoMetrics == <<Absent, Absent, Absent>>
Mbps == <<10, 11, 12>>
Xput == <<20, 21, 22>>

\* history entries that differ in the fields that carry the measurement
FieldEntries ==
    {Raw(<<>>, <<1>>, <<>>, <<>>, m[1], m[2], Absent) :
        m \in {<<Mbps, NoMetrics>>, <<NoMetrics, Xput>>, <<Mbps, Xput>>,
               <<NoMetrics, NoMetrics>>,
               <<<<Absent, 11, NoValue>>, <<20, Absent, Junk>>>>}}

\* history entries that differ in the names: the pair of the first is that of
\* FieldEntries, the second and the third have one name, the fourth has none,
\* the fifth and the sixth have different pairs and one key
NameEntries ==
    {Raw(<<>>, <<1>>, <<>>, GroupWAN, <<50, 51, 52>>, NoMetrics, 1),
     Raw(<<>>, <<2>>, <<>>, <<>>, Mbps, NoMetrics, 2),
     Raw(<<>>, <<>>, <<2>>, <<>>, NoMetrics, Xput, Absent),
     Raw(<<>>, <<>>, <<>>, <<>>, Mbps, Xput, Absent),
     Raw(<<>>, <<1, Underscore, 7>>, <<>>, <<7>>, Mbps, NoMetrics, Absent),
     Raw(<<>>, <<1>>, <<>>, <<7, Underscore, 7>>, NoMetrics, Xput, Absent),
     Raw(<<>>, <<1>>, <<>>, <<7, 2>>, Mbps, NoMetrics, Absent)}

HistoryEntries == FieldEntries \cup NameEntries \cup {BadEntry}

\* a response that could not be had, and one with the given data['data']
Failed == [ok |-> FALSE, data |-> <<>>]
Ok(data) == [ok |-> TRUE, data |-> data]

\* what a history endpoint may have: every list in the endpoint that is
\* looked at closely, one of three in the others
HistoryAnswers(rich) ==
    IF rich
    THEN {Failed} \cup {Ok(d) : d \in SeqsUpTo(HistoryEntries, MaxEntries)}
    ELSE {Failed, Ok(<<>>),
          Ok(<<Raw(<<>>, <<2>>, <<>>, <<>>, <<60, 61, 62>>, <<70, 71, 72>>, 3)>>)}

\* what a health endpoint may have
HealthAnswers ==
    LET www == Raw(SubWww, <<>>, <<>>, <<>>, NoMetrics, <<30, 31, 32>>, Absent)
        www1 == Raw(SubWww, <<>>, <<1>>, <<>>, NoMetrics, NoMetrics, Absent)
        wan2 == Raw(SubWan2, <<>>, <<>>, <<>>, NoMetrics, <<40, 41, 42>>, Absent)
        lan == Raw(SubLan, <<>>, <<>>, <<>>, NoMetrics, NoMetrics, Absent)
    IN {Failed, Ok(<<>>), Ok(<<lan>>), Ok(<<lan, www>>), Ok(<<www1, www>>),
        Ok(<<wan2, www1>>), Ok(<<BadEntry, www>>), Ok(<<wan2, BadEntry>>)}

\* what the endpoint at place i may have when the endpoint at place p is the
\* one looked at closely
AnswersAt(i, p) ==
    IF i > Len(EndpointKinds) THEN {Failed}
    ELSE IF EndpointKinds[i] = "health" THEN HealthAnswers
    ELSE HistoryAnswers(i = p)

InitNorm ==
    /\ InitClient
    /\ controller_type \in {"udm", "controller"}
    /\ enable_multi_wan \in BOOLEAN
    /\ NoWanInput
    /\ NoTwice
    /\ NoTracking
    /\ NoPolling
    /\ NoCoordinator
    /\ NoHass
    /\ NoEntities
    /\ norm = [pc |-> "scan", endpoint |-> 1, requested |-> <<>>,
               result |-> <<>>]
    /\ \E p \in {i \in 1..Len(EndpointKinds) : EndpointKinds[i] = "history"} :
           \E a1 \in AnswersAt(1, p), a2 \in AnswersAt(2, p),
              a3 \in AnswersAt(3, p) :
               answers = SubSeq(<<a1, a2, a3>>, 1, Len(EndpointKinds))

NextNorm ==
    \/ NormRequest
    \/ NormFinish

SpecNorm == InitNorm /\ [][NextNorm]_vars

\* Two calls of get_speed_test_status() in a row against a backend that
\* answers a request the same way every time it gets it: the login POST, the
\* first status endpoint, the other status endpoints, and the routing and
\* configuration endpoints.  An answer is a 200 with a payload that has
\* records ("data") or has none ("nodata"), a 403, or a network error.
BackendAnswers == {"data", "nodata", "403", "net"}

Backends ==
    [login : LoginOutcomes, first : BackendAnswers, others : BackendAnswers,
     introspection : BackendAnswers]

\* the answer to the request caller c is about to send or has sent
BackendAnswer(c) ==
    IF stage[c] = "scan"
    THEN IF endpoint[c] = 1 THEN twice.backend.first ELSE twice.backend.others
    ELSE twice.backend.introspection

BackendCode(c) ==
    IF BackendAnswer(c) \in {"data", "nodata"} THEN "200" ELSE BackendAnswer(c)

\* the client was used before: login() calls with any outcome
InitTwice ==
    /\ InitClient
    /\ controller_type \in {"udm", "controller"}
    /\ enable_multi_wan \in BOOLEAN
    /\ NoWanInput
    /\ NoNormInput
    /\ NoTracking
    /\ NoPolling
    /\ NoCoordinator
    /\ NoHass
    /\ NoEntities
    /\ \E b \in Backends :
           twice = [calls |-> 0, backend |-> b, sources |-> {},
                    results |-> <<>>]

\* a login() call before the two calls, answered in any way
TwiceBefore ==
    /\ twice.calls = 0
    /\ \/ CallLogin(1)
       \/ op[1] = "login" /\ Inside(1)
    /\ UNCHANGED <<called, restVars>>

\* the first and the second call of get_speed_test_status()
TwiceCall ==
    /\ twice.calls < 2
    /\ op[1] = "none"
    /\ CallStatus(1)

\* the steps of login() and _make_request() inside the calls that wait for
\* no answer
TwiceInside ==
    /\ op[1] = "status"
    /\ \/ LoginAcquire(1)
       \/ LoginCheck(1)
       \/ LoginEnforce(1)
       \/ LoginReturn(1)
       \/ EnsureAuthenticated(1)
       \/ EnforceRateLimit(1)
       \/ HandleRateLimit(1)
       \/ \E j \in Jitters : BackoffWait(1, j)
    /\ UNCHANGED <<called, restVars>>

\* the backend answers the login POST and the target request
TwiceLoginPost ==
    /\ op[1] = "status"
    /\ LoginPost(1, twice.backend.login)
    /\ UNCHANGED <<called, restVars>>

TwiceSendTarget ==
    /\ op[1] = "status"
    /\ SendTarget(1, BackendCode(1))
    /\ UNCHANGED <<called, restVars>>

\* the payload of the answer is worked on; the endpoints whose records the
\* result is made of are kept
TwicePayload ==
    /\ BackendAnswer(1) \in {"data", "nodata"}
    /\ StatusPayloadStep(1, BackendAnswer(1))
    /\ twice' = [twice EXCEPT
                    !.sources =
                        IF BackendAnswer(1) = "data"
                        THEN @ \cup {<<stage[1], endpoint[1]>>} ELSE @]
    /\ UNCHANGED <<normVars, trackVars, polling, coordinator, hass, entities>>

\* a call returns: what it returns is kept
TwiceReturn ==
    /\ StatusReturnStep(1)
    /\ twice' = [twice EXCEPT
                    !.calls = @ + 1,
                    !.sources = {},
                    !.results = Append(@, [result |-> status_result[1],
                                           sources |-> twice.sources])]
    /\ UNCHANGED <<normVars, trackVars, polling, coordinator, hass, entities>>

NextTwice ==
    \/ TwiceBefore
    \/ TwiceCall
    \/ StatusCheck(1)
    \/ StatusLoop(1)
    \/ TwiceInside
    \/ TwiceLoginPost
    \/ TwiceSendTarget
    \/ StatusRaised(1)
    \/ TwicePayload
    \/ TwiceReturn

SpecTwice == InitTwice /\ [][NextTwice]_vars

(* --------------------------- SpeedTestTracker -------------------------- *)
\* the most record_attempt calls, the most record_success calls and the most
\* record_failure calls in one sequence of calls
MaxRuns == 1
MaxFailures == 11

\* the entries of failure_reasons that async_save keeps (line 301)
KeptReasons == 10

\* record_attempt (lines 315-329)
record_attempt(t, automated) ==
    [t EXCEPT !.total_attempts = @ + 1,
              !.automated_attempts = IF automated THEN @ + 1 ELSE @,
              !.manual_attempts = IF automated THEN @ ELSE @ + 1]

\* record_success (lines 331-343)
record_success(t, automated) ==
    [t EXCEPT !.successful_runs = @ + 1,
              !.automated_successes = IF automated THEN @ + 1 ELSE @,
              !.manual_successes = IF automated THEN @ ELSE @ + 1]

\* record_failure (lines 345-365); an entry of failure_reasons is the
\* dictionary {'time', 'reason', 'automated'} without its wall-clock 'time'
record_failure(t, automated, reason) ==
    [t EXCEPT !.failed_runs = @ + 1,
              !.last_failure_reason = reason,
              !.failure_reasons =
                  IF reason # NoReason
                  THEN Append(@, [reason |-> reason, automated |-> automated])
                  ELSE @,
              !.automated_failures = IF automated THEN @ + 1 ELSE @,
              !.manual_failures = IF automated THEN @ ELSE @ + 1]

\* failure_reasons[:10]
FirstReasons(list) == SubSeq(list, 1, Min(Len(list), KeptReasons))

\* failure_reasons[-10:]
LastReasons(list) ==
    SubSeq(list, Max(1, Len(list) - KeptReasons + 1), Len(list))

\* the dictionary async_save hands to the Store (lines 290-302)
SavedData(t) ==
    [total_attempts |-> t.total_attempts,
     successful_runs |-> t.successful_runs,
     failed_runs |-> t.failed_runs,
     automated_attempts |-> t.automated_attempts,
     manual_attempts |-> t.manual_attempts,
     automated_successes |-> t.automated_successes,
     manual_successes |-> t.manual_successes,
     automated_failures |-> t.automated_failures,
     manual_failures |-> t.manual_failures,
     last_failure_reason |-> t.last_failure_reason,
     failure_reasons |-> LastReasons(t.failure_reasons)]

\* async_load (lines 259-285): data is <<>> for None, else the dictionary
LoadedTracker(t, data) ==
    IF data = <<>> THEN t
    ELSE [t EXCEPT !.total_attempts = data[1].total_attempts,
                   !.successful_runs = data[1].successful_runs,
                   !.failed_runs = data[1].failed_runs,
                   !.automated_attempts = data[1].automated_attempts,
                   !.manual_attempts = data[1].manual_attempts,
                   !.automated_successes = data[1].automated_successes,
                   !.manual_successes = data[1].manual_successes,
                   !.automated_failures = data[1].automated_failures,
                   !.manual_failures = data[1].manual_failures,
                   !.last_failure_reason = data[1].last_failure_reason,
                   !.failure_reasons = data[1].failure_reasons]

\* the record_failure calls of the program, as <<automated, reason>>: the
\* scheduled runner passes a message (sensor.py lines 121, 127, 155), the
\* manual handler passes no reason (__init__.py line 110)
FailureCalls ==
    {<<TRUE, "API in cooldown">>, <<TRUE, "Too many 403 errors">>,
     <<FALSE, NoReason>>}

trackerFrame ==
    UNCHANGED <<apiVars, callVars, obsVars, called, cfgVars, health,
                statusVars, wanVars, normVars, twice, polling, coordinator,
                hass, entities>>

TrackerAttempt ==
    /\ store.pc = "empty"
    /\ speed_test_tracker.total_attempts < MaxRuns
    /\ \E automated \in BOOLEAN :
           speed_test_tracker' = record_attempt(speed_test_tracker, automated)
    /\ UNCHANGED <<store, runs>>
    /\ trackerFrame

TrackerSuccess ==
    /\ store.pc = "empty"
    /\ speed_test_tracker.successful_runs < MaxRuns
    /\ \E automated \in BOOLEAN :
           speed_test_tracker' = record_success(speed_test_tracker, automated)
    /\ UNCHANGED <<store, runs>>
    /\ trackerFrame

TrackerFailure ==
    /\ store.pc = "empty"
    /\ speed_test_tracker.failed_runs < MaxFailures
    /\ \E call \in FailureCalls :
           speed_test_tracker' =
               record_failure(speed_test_tracker, call[1], call[2])
    /\ UNCHANGED <<store, runs>>
    /\ trackerFrame

\* async_save: the Store takes the data, or raises and the except clause
\* (lines 312-313) leaves it as it was
TrackerSave ==
    /\ store.pc = "empty"
    /\ \E stored \in BOOLEAN :
           store' = [store EXCEPT
                        !.pc = "saved",
                        !.data = IF stored
                                 THEN <<SavedData(speed_test_tracker)>>
                                 ELSE @]
    /\ UNCHANGED <<speed_test_tracker, runs>>
    /\ trackerFrame

\* async_load of a fresh tracker built on the same Store
TrackerLoad ==
    /\ store.pc = "saved"
    /\ store' = [store EXCEPT
                    !.pc = "loaded",
                    !.fresh = <<LoadedTracker(NewTracker, store.data)>>]
    /\ UNCHANGED <<speed_test_tracker, runs>>
    /\ trackerFrame

InitTracker ==
    /\ InitClient
    /\ controller_type = "udm"
    /\ enable_multi_wan = TRUE
    /\ NoWanInput
    /\ NoNormInput
    /\ NoTwice
    /\ FreshTracking
    /\ NoPolling
    /\ NoCoordinator
    /\ NoHass
    /\ NoEntities

NextTracker ==
    \/ TrackerAttempt
    \/ TrackerSuccess
    \/ TrackerFailure
    \/ TrackerSave
    \/ TrackerLoad

SpecTracker == InitTracker /\ [][NextTracker]_vars


(* ------------- run_scheduled_speedtest and start_speed_test ------------ *)
\* Both coroutines run on the one event loop: the statements between two
\* awaits are one step.  get_health_status and api.start_speed_test run in the
\* executor; what they return or raise is an input here.

\* get_health_status as the runner reads it (sensor.py lines 119, 125)
HealthOutcomes == {"in_cooldown", "many_403s", "healthy"}
\* api.start_speed_test returns, or raises with a message that holds "403" or
\* "forbidden", "cooldown", or neither (api.py lines 295-311)
StartOutcomes == {"ok", "403", "cooldown", "error"}

Automated(h) == h = "scheduled"

\* the reason the runner records after an exception (sensor.py lines 144-153)
RaisedReason(outcome) ==
    CASE outcome = "403" -> "403 Forbidden - possible rate limiting"
      [] outcome = "cooldown" -> "API in cooldown period"
      [] OTHER -> "Error"

\* the place of the next call in the order of all calls the tracker received
NextCallAt(t) == t.total_attempts + t.successful_runs + t.failed_runs + 1

AttemptCall(h) ==
    [call |-> "attempt", automated |-> Automated(h), reason |-> NoReason]
SuccessCall(h) ==
    [call |-> "success", automated |-> Automated(h), reason |-> NoReason]
FailureCall(h, reason) ==
    [call |-> "failure", automated |-> Automated(h), reason |-> reason]

\* the tracker after the calls of a step, in their order
RECURSIVE AfterCalls(_, _)
AfterCalls(t, calls) ==
    IF calls = <<>> THEN t
    ELSE LET c == Head(calls)
             u == CASE c.call = "attempt" -> record_attempt(t, c.automated)
                    [] c.call = "success" -> record_success(t, c.automated)
                    [] OTHER -> record_failure(t, c.automated, c.reason)
         IN  AfterCalls(u, Tail(calls))

\* the calls, each with its place in the order of all calls
RECURSIVE Placed(_, _)
Placed(calls, at) ==
    IF calls = <<>> THEN <<>>
    ELSE <<[call |-> Head(calls).call, automated |-> Head(calls).automated,
            at |-> at]>>
             \o Placed(Tail(calls), at + 1)

\* the runner after get_health_status returned (sensor.py lines 119-137):
\* a skip records a failure and saves; else the attempt is recorded, after
\* the random delay when it is not 0
ScheduledAfterHealth(snapshot, delayed) ==
    CASE snapshot = "in_cooldown" ->
             [calls |-> <<FailureCall("scheduled", "API in cooldown")>>,
              pc |-> "save"]
      [] snapshot = "many_403s" ->
             [calls |-> <<FailureCall("scheduled", "Too many 403 errors")>>,
              pc |-> "save"]
      [] OTHER ->
             IF delayed THEN [calls |-> <<>>, pc |-> "sleep"]
             ELSE [calls |-> <<AttemptCall("scheduled")>>, pc |-> "start"]

\* the runner after api.start_speed_test returned or raised (lines 139-140,
\* 143-156)
ScheduledAfterStart(outcome) ==
    IF outcome = "ok" THEN <<SuccessCall("scheduled")>>
    ELSE <<FailureCall("scheduled", RaisedReason(outcome))>>

\* a handler that records nothing when api.start_speed_test raises
ManualAfterStartSilent(outcome) ==
    IF outcome = "ok" THEN <<SuccessCall("manual")>> ELSE <<>>

\* the manual handler after api.start_speed_test returned or raised
\* (__init__.py lines 100-103, 107-111)
ManualAfterStart(outcome) ==
    IF outcome = "ok" THEN <<SuccessCall("manual")>>
    ELSE <<FailureCall("manual", NoReason)>>

runFrame ==
    UNCHANGED <<apiVars, callVars, obsVars, called, cfgVars, health,
                statusVars, wanVars, normVars, twice, polling, coordinator,
                hass, entities>>

\* the step of handler h that makes the calls and suspends at pc; saving
\* means the step goes on into async_save, which builds its dictionary before
\* it awaits the Store
RunStep(h, calls, to, fresh_run) ==
    /\ speed_test_tracker' = AfterCalls(speed_test_tracker, calls)
    /\ runs' = [runs EXCEPT
                   ![h].pc = to,
                   ![h].calls =
                       (IF fresh_run THEN <<>> ELSE @)
                           \o Placed(calls, NextCallAt(speed_test_tracker)),
                   ![h].data =
                       IF to = "save"
                       THEN <<SavedData(AfterCalls(speed_test_tracker, calls))>>
                       ELSE <<>>]
    /\ UNCHANGED store
    /\ runFrame

\* async_track_time_interval fires (sensor.py line 165): the runner awaits
\* get_health_status
ScheduledFire ==
    /\ runs["scheduled"].pc = "idle"
    /\ runs["scheduled"].done < MaxRuns
    /\ RunStep("scheduled", <<>>, "health", TRUE)

ScheduledHealth ==
    /\ runs["scheduled"].pc = "health"
    /\ \E snapshot \in HealthOutcomes, delayed \in BOOLEAN :
           LET after == ScheduledAfterHealth(snapshot, delayed)
           IN  RunStep("scheduled", after.calls, after.pc, FALSE)

\* asyncio.sleep(delay) is over
ScheduledWake ==
    /\ runs["scheduled"].pc = "sleep"
    /\ RunStep("scheduled", <<AttemptCall("scheduled")>>, "start", FALSE)

ScheduledStarted ==
    /\ runs["scheduled"].pc = "start"
    /\ \E outcome \in StartOutcomes :
           RunStep("scheduled", ScheduledAfterStart(outcome), "save", FALSE)

\* the service is called (__init__.py lines 92-98)
ManualCall ==
    /\ runs["manual"].pc = "idle"
    /\ runs["manual"].done < MaxRuns
    /\ RunStep("manual", <<AttemptCall("manual")>>, "start", TRUE)

ManualStarted ==
    /\ runs["manual"].pc = "start"
    /\ \E outcome \in StartOutcomes :
           RunStep("manual", ManualAfterStart(outcome), "save", FALSE)

\* the Store took the dictionary of handler h, or raised (sensor.py lines
\* 310-313); the run is over
RunSaved(h) ==
    /\ runs[h].pc = "save"
    /\ \E stored \in BOOLEAN :
           store' = [store EXCEPT !.data = IF stored THEN runs[h].data ELSE @]
    /\ runs' = [runs EXCEPT ![h].pc = "idle", ![h].done = @ + 1,
                            ![h].data = <<>>]
    /\ UNCHANGED speed_test_tracker
    /\ runFrame

ScheduledSaved == RunSaved("scheduled")
ManualSaved == RunSaved("manual")

\* the steps that go on with a run in progress
ScheduledGoesOn ==
    ScheduledHealth \/ ScheduledWake \/ ScheduledStarted \/ ScheduledSaved
ManualGoesOn == ManualStarted \/ ManualSaved

InitRuns == InitTracker

NextRuns ==
    \/ ScheduledFire
    \/ ScheduledHealth
    \/ ScheduledWake
    \/ ScheduledStarted
    \/ ScheduledSaved
    \/ ManualCall
    \/ ManualStarted
    \/ ManualSaved

\* the event loop resumes a coroutine whose await is over, and the executor
\* jobs end: every request of the client has a timeout
SpecRuns ==
    /\ InitRuns
    /\ [][NextRuns]_vars
    /\ WF_vars(ScheduledGoesOn)
    /\ WF_vars(ManualGoesOn)


(* -------------------------- polling interval --------------------------- *)
\* how far above the permitted range the schedule intervals of stored config
\* entries go
MaxOutside == 15

\* const.py lines 31-32, the Range of the forms (config_flow.py lines 117, 210)
MIN_SCHEDULE_INTERVAL == 15
MAX_SCHEDULE_INTERVAL == 1440
\* the polling interval without scheduling (sensor.py line 92,
\* config_flow.py line 57)
UnscheduledPolling == 30

\* calculate_polling_interval of sensor.py (lines 20-27); // is \div
calculate_polling_interval(schedule_interval) ==
    IF schedule_interval <= 30
    THEN Max(10, schedule_interval \div 3)
    ELSE IF schedule_interval <= 60
         THEN Max(15, schedule_interval \div 2)
         ELSE Max(20, schedule_interval \div 3)

\* a rule with the divisor 3 in every tier
config_flow_one_divisor(schedule_interval) ==
    IF schedule_interval <= 30
    THEN Max(10, schedule_interval \div 3)
    ELSE IF schedule_interval <= 60
         THEN Max(15, schedule_interval \div 3)
         ELSE Max(20, schedule_interval \div 3)

\* calculate_polling_interval of config_flow.py (lines 26-33)
config_flow_calculate_polling_interval(schedule_interval) ==
    IF schedule_interval <= 30
    THEN Max(10, schedule_interval \div 3)
    ELSE IF schedule_interval <= 60
         THEN Max(15, schedule_interval \div 2)
         ELSE Max(20, schedule_interval \div 3)

\* get_polling_calculation_info (const.py lines 46-62); ratio is the number
\* after "1:"
get_polling_calculation_info(schedule_interval) ==
    LET calculated ==
            IF schedule_interval <= 30
            THEN Max(10, schedule_interval \div 3)
            ELSE IF schedule_interval <= 60
                 THEN Max(15, schedule_interval \div 2)
                 ELSE Max(20, schedule_interval \div 3)
        description ==
            IF schedule_interval <= 30 THEN "Very frequent speed tests"
            ELSE IF schedule_interval <= 60 THEN "Moderate frequency"
            ELSE "Conservative frequency"
    IN  [calculated_interval |-> calculated,
         description |-> description,
         ratio |-> IF calculated > 0 THEN schedule_interval \div calculated
                   ELSE 1]

\* POLLING_EXAMPLES (const.py lines 89-96): the polling value given for each
\* schedule interval
POLLING_EXAMPLES ==
    (15 :> 10) @@ (30 :> 15) @@ (60 :> 20) @@ (90 :> 30) @@ (120 :> 40) @@
    (180 :> 60)

\* a setup that keeps a stored polling interval equal to the schedule interval
AdjustsAbove(polling_interval, schedule_interval) ==
    polling_interval > schedule_interval

\* the test of sensor.py line 98
Adjusts(polling_interval, schedule_interval) ==
    polling_interval >= schedule_interval

\* the update_interval async_setup_entry gives the coordinator, in minutes
\* (sensor.py lines 87-110); NoValue is the polling interval that is not in
\* the entry
CoordinatorInterval(enable_scheduling, schedule_interval, stored) ==
    LET polling_interval ==
            IF stored = NoValue
            THEN IF enable_scheduling
                 THEN calculate_polling_interval(schedule_interval)
                 ELSE UnscheduledPolling
            ELSE stored
    IN  IF enable_scheduling /\ Adjusts(polling_interval, schedule_interval)
        THEN calculate_polling_interval(schedule_interval)
        ELSE polling_interval

\* the schedule intervals of config entries, permitted or not
ScheduleIntervals == 0..(MAX_SCHEDULE_INTERVAL + MaxOutside)
\* the schedule intervals the forms accept
PermittedIntervals == MIN_SCHEDULE_INTERVAL..MAX_SCHEDULE_INTERVAL
\* the polling intervals of stored entries: none, or a number below, at or
\* above the schedule interval
StoredPolling(schedule_interval) ==
    {NoValue} \cup
    {p \in {0, 10, schedule_interval - 1, schedule_interval,
            schedule_interval + 1, 240} : p >= 0}

pollingFrame ==
    UNCHANGED <<apiVars, callVars, obsVars, called, cfgVars, health,
                statusVars, wanVars, normVars, twice, trackVars,
                coordinator, hass, entities>>

\* async_step_user with a user_input whose login succeeds (config_flow.py
\* lines 50-89): the entry is created with the calculated polling interval
ConfigFlowUser ==
    /\ polling.pc = "user"
    /\ polling' =
           [polling EXCEPT
               !.pc = "entry",
               !.polling_interval =
                   IF polling.enable_scheduling
                   THEN config_flow_calculate_polling_interval(
                            polling.schedule_interval)
                   ELSE UnscheduledPolling]
    /\ pollingFrame

\* async_setup_entry of the sensor platform (sensor.py lines 80-110)
SensorSetup ==
    /\ polling.pc = "entry"
    /\ polling' =
           [polling EXCEPT
               !.pc = "setup",
               !.update_interval =
                   CoordinatorInterval(polling.enable_scheduling,
                                       polling.schedule_interval,
                                       polling.polling_interval)]
    /\ pollingFrame

\* get_polling_calculation_info for the schedule interval of the entry
PollingInfo ==
    /\ polling.pc = "setup"
    /\ polling' =
           [polling EXCEPT
               !.pc = "info",
               !.info =
                   <<get_polling_calculation_info(polling.schedule_interval)>>]
    /\ pollingFrame

\* a form that was filled in with permitted values, or an entry that is
\* stored already, with any polling interval
InitPolling ==
    /\ InitClient
    /\ controller_type = "udm"
    /\ enable_multi_wan = TRUE
    /\ NoWanInput
    /\ NoNormInput
    /\ NoTwice
    /\ NoTracking
    /\ NoCoordinator
    /\ NoHass
    /\ NoEntities
    /\ \E enabled \in BOOLEAN :
           \/ \E interval \in PermittedIntervals :
                  polling = [pc |-> "user", enable_scheduling |-> enabled,
                             schedule_interval |-> interval,
                             polling_interval |-> NoValue,
                             update_interval |-> NoValue, info |-> <<>>]
           \/ \E interval \in ScheduleIntervals :
                  \E stored \in StoredPolling(interval) :
                      polling = [pc |-> "entry", enable_scheduling |-> enabled,
                                 schedule_interval |-> interval,
                                 polling_interval |-> stored,
                                 update_interval |-> NoValue, info |-> <<>>]

NextPolling ==
    \/ ConfigFlowUser
    \/ SensorSetup
    \/ PollingInfo

SpecPolling == InitPolling /\ [][NextPolling]_vars


(* ------------------ async_setup_entry, async_unload_entry -------------- *)
\* config entries that are set up and unloaded
NumConfigEntries == 3
ConfigEntries == 1..NumConfigEntries

\* A key of hass.data[DOMAIN] is <<entry id, what is appended to it>>; entry
\* ids are generated by Home Assistant and end with none of the suffixes.
EndsWith(key, suffixes) == key[2] \in suffixes

\* what the setup of the sensor platform stores (sensor.py lines 44, 169-173)
SensorKeys(entry, scheduling) ==
    {<<entry, "_tracker">>} \cup
    (IF scheduling
     THEN {<<entry, "_scheduled_listener">>, <<entry, "_schedule_interval">>,
           <<entry, "_polling_interval">>}
     ELSE {})

\* remaining_entries of async_unload_entry (__init__.py lines 194-195)
RemainingEntries(data) ==
    {key \in data : /\ ~EndsWith(key, {"_tracker"})
                    /\ ~EndsWith(key, {"_scheduled_listener",
                                       "_initial_listener"})}

hassFrame ==
    UNCHANGED <<apiVars, callVars, obsVars, called, cfgVars, health,
                statusVars, wanVars, normVars, twice, trackVars, polling,
                coordinator, entities>>

\* async_setup_entry of an entry that is not loaded (__init__.py lines
\* 17-157): a failed login returns False before anything is stored; else the
\* client and what the sensor platform stores are put into hass.data and the
\* services are registered unless they are
SetupEntry ==
    /\ \E entry \in ConfigEntries \ hass.loaded :
       \E login_ok, scheduling \in BOOLEAN :
           hass' = IF login_ok
                   THEN [data |-> hass.data \cup {<<entry, "">>}
                                      \cup SensorKeys(entry, scheduling),
                         services |-> TRUE,
                         loaded |-> hass.loaded \cup {entry}]
                   ELSE hass
    /\ hassFrame

\* async_unload_entry of a loaded entry (lines 159-207): the listener keys go
\* first; when the platform is unloaded the entry and its tracker go, and the
\* services go when no other key is left
UnloadEntry ==
    /\ \E entry \in hass.loaded :
       \E unload_ok \in BOOLEAN :
           LET unlistened ==
                   hass.data \ {<<entry, "_scheduled_listener">>,
                                <<entry, "_initial_listener">>}
               cleaned == unlistened \ {<<entry, "">>, <<entry, "_tracker">>}
           IN  hass' = IF unload_ok
                       THEN [data |-> cleaned,
                             services |-> hass.services
                                          /\ RemainingEntries(cleaned) # {},
                             loaded |-> hass.loaded \ {entry}]
                       ELSE [hass EXCEPT !.data = unlistened]
    /\ hassFrame

InitHass ==
    /\ InitClient
    /\ controller_type = "udm"
    /\ enable_multi_wan = TRUE
    /\ NoWanInput
    /\ NoNormInput
    /\ NoTwice
    /\ NoTracking
    /\ NoPolling
    /\ NoCoordinator
    /\ hass = NewHass
    /\ NoEntities

NextHass ==
    \/ SetupEntry
    \/ UnloadEntry

SpecHass == InitHass /\ [][NextHass]_vars


(* ---------------------- the multi-WAN sensors -------------------------- *)
\* the group label 'WAN2'
GroupWAN2 == <<7, 2>>

\* the interface records of poll results: two interface names, two groups,
\* two download values
SensorWans ==
    [interface_name : {<<1>>, <<2>>}, wan_networkgroup : {GroupWAN, GroupWAN2},
     download : {50, 60}, upload : {NoValue}, timestamp : {NoValue}]

\* the routing table at a poll: none, or a default route through an interface
SensorRoutes ==
    {<<>>} \cup
    {<<[network |-> "0.0.0.0", netmask |-> "0.0.0.0", interface |-> name,
        metric |-> 100]>> : name \in {<<1>>, <<2>>}}

\* the result of _get_speed_test_status_udm_multi_wan (api.py lines 693-710);
\* the skip and the except clause of get_speed_test_status give the result
\* without interfaces (lines 450, 464)
PollResult(wans, routes) ==
    [wan_interfaces |-> wans,
     primary_wan |-> DeterminePrimaryWanUdm(routes, <<>>, wans),
     multi_wan_enabled |-> TRUE]

PollResults ==
    {PollResult(wans, routes) :
        wans \in Dicts(SensorWans, MaxWans), routes \in SensorRoutes}

\* the sensors async_setup_entry creates for the interfaces of the first
\* refresh (sensor.py lines 187-207); the download, upload and ping sensors of
\* an interface differ in the key they read only, the download sensor stands
\* for them
CreateSensors(data) ==
    [i \in 1..Len(data.wan_interfaces) |->
        [interface_name |-> data.wan_interfaces[i].interface_name,
         wan_group |-> data.wan_interfaces[i].wan_networkgroup,
         wan_index |-> i - 1]]

\* UniFiSpeedTestSensorMultiWAN.state (sensor.py lines 472-489): a multi-WAN
\* result has no 'download' key of its own, the fallback gives None
SensorState(sensor, data) ==
    IF sensor.wan_index < Len(data.wan_interfaces)
    THEN data.wan_interfaces[sensor.wan_index + 1].download
    ELSE NoValue

\* a sensor that looks its interface up by name and group
SensorStateByKey(sensor, data) ==
    LET found == {k \in 1..Len(data.wan_interfaces) :
                     /\ data.wan_interfaces[k].interface_name =
                            sensor.interface_name
                     /\ data.wan_interfaces[k].wan_networkgroup =
                            sensor.wan_group}
    IN  IF found = {} THEN NoValue
        ELSE data.wan_interfaces[FirstIndex(found)].download

\* primary_wan.split('_')[0] if '_' in primary_wan else primary_wan
SplitFirst(key) ==
    LET at == FirstIndex({k \in 1..Len(key) : key[k] = Underscore})
    IN  IF at = 0 THEN key ELSE SubSeq(key, 1, at - 1)

\* _determine_is_primary_wan (sensor.py lines 547-576) of a sensor whose
\* index is within the interfaces of the result (lines 529-535)
DetermineIsPrimaryWan(sensor, data) ==
    LET wan_data == data.wan_interfaces[sensor.wan_index + 1]
        current_wan_key ==
            sensor.interface_name \o <<Underscore>> \o sensor.wan_group
    IN  IF data.primary_wan = NoKey THEN FALSE
        ELSE \/ current_wan_key = data.primary_wan
             \/ wan_data.interface_name = SplitFirst(data.primary_wan)
             \/ /\ sensor.wan_index = 0
                /\ data.primary_wan = data.wan_interfaces[1].interface_name

sensorFrame ==
    UNCHANGED <<apiVars, callVars, obsVars, called, cfgVars, health,
                statusVars, wanVars, normVars, twice, trackVars, polling,
                hass>>

\* coordinator.async_config_entry_first_refresh (sensor.py line 179)
FirstRefresh ==
    /\ entities.pc = "refresh"
    /\ \E polled \in PollResults :
           coordinator' = [coordinator EXCEPT !.data = polled]
    /\ entities' = [entities EXCEPT !.pc = "setup"]
    /\ sensorFrame

\* lines 181-230: per-interface sensors when the first result has interfaces,
\* the legacy sensors otherwise
AddEntities ==
    /\ entities.pc = "setup"
    /\ entities' = [pc |-> "ready",
                    sensors |-> CreateSensors(coordinator.data)]
    /\ UNCHANGED coordinator
    /\ sensorFrame

\* a later poll of the coordinator
LaterPoll ==
    /\ entities.pc = "ready"
    /\ \E polled \in PollResults :
           coordinator' = [coordinator EXCEPT !.data = polled]
    /\ UNCHANGED entities
    /\ sensorFrame

InitSensors ==
    /\ InitClient
    /\ controller_type = "udm"
    /\ enable_multi_wan = TRUE
    /\ NoWanInput
    /\ NoNormInput
    /\ NoTwice
    /\ NoTracking
    /\ NoPolling
    /\ coordinator = NewCoordinator
    /\ NoHass
    /\ entities = [pc |-> "refresh", sensors |-> <<>>]

NextSensors ==
    \/ FirstRefresh
    \/ AddEntities
    \/ LaterPoll

SpecSensors == InitSensors /\ [][NextSensors]_vars


(* ------------------------------ claims --------------------------------- *)
\* the statements of login() between taking and releasing _login_lock
LoginBody == {"login_check", "login_enforce", "login_post"}

\* C1: while now < cooldown_until (which is set only once three logins in a
\* row have failed) a login() call raises the cooldown error straight from
\* the check, with no network call; and every cooldown window that is opened
\* is at least 5 and at most 30 minutes long.
C1_LoginCooldown ==
    [][ /\ \A c \in Callers :
             (/\ pc[c] = "login_check"
              /\ pc'[c] # "login_check"
              /\ login_cooldown_until # NoTime
              /\ login_cooldown_until > 0)
             => /\ pc'[c] = "login_done"
                /\ login_result'[c] = "cooldown"
                /\ last_net' = last_net
                /\ failed_login_count >= 3
        /\ \A c \in Callers :
             pc'[c] = "login_post" => login_cooldown_until' \in {NoTime, 0}
        /\ (failed_login_count' > failed_login_count /\ failed_login_count' >= 3)
             => (login_cooldown_until' >= 5 * 60 /\ login_cooldown_until' <= 30 * 60)
      ]_vars

C1_Witness ==
    \E c \in Callers :
        /\ pc[c] = "login_done"
        /\ login_result[c] = "cooldown"
        /\ failed_login_count >= 3
        /\ login_cooldown_until > 0

\* C2: a target request is sent only while the most recent login attempt
\* succeeded (last_login is set).
C2_SendOnlyAfterLogin ==
    \A c \in Callers : pc[c] = "send" => last_login # NoTime

\* C3: every network call (login POST or target request) comes at least
\* 5 seconds after the previous network call of the client.
C3_MinInterval ==
    \A c \in Callers :
        pc[c] \in {"login_post", "send"} =>
            (last_net = NoTime \/ last_net >= 5)

\* C4: when the only answers were k <= max_retries rejections (403), every
\* re-login succeeded and the call has ended, it returned the 200 response
\* and the consecutive-rejection counter is 0.
C4_RetryThenSuccess ==
    \A c \in Callers :
        (/\ pc[c] = "ret"
         /\ op[c] = "request"
         /\ clean[c]
         /\ n403[c] <= max_retries[c])
        => (result[c] = "resp200" /\ consecutive_403s = 0)

C4_Witness ==
    \E c \in Callers :
        /\ pc[c] = "ret"
        /\ op[c] = "request"
        /\ clean[c]
        /\ max_retries[c] = 2
        /\ n403[c] = 2
        /\ sends[c] = 3
        /\ result[c] = "resp200"

\* C5: _make_request sends the target request at most max_retries + 1 times,
\* every call that was started ends, and it ends with a response or with an
\* error, never with neither.
C5_BoundedAndEnds ==
    /\ [](\A c \in Callers :
            /\ sends[c] <= max_retries[c] + 1
            /\ (pc[c] = "ret" /\ op[c] = "request") => result[c] # "none")
    /\ \A c \in {1} : (pc[c] = "ensure") ~> (pc[c] = "ret")

C5_Witness ==
    \E c \in Callers :
        /\ pc[c] = "ret"
        /\ op[c] = "request"
        /\ max_retries[c] = 3
        /\ sends[c] = 4
        /\ result[c] = "errnet"

\* C6 as stated: every call of _make_request that has ended has assigned
\* _last_request_time.
C6_AlwaysStamped ==
    \A c \in Callers :
        (pc[c] = "ret" /\ op[c] = "request") => lrt_set[c]

\* C6 amended: every call of _make_request that has ended has assigned
\* _last_request_time, whatever its outcome, unless login() refused it with
\* the cooldown error before anything was sent.
C6_StampedUnlessCooldown ==
    \A c \in Callers :
        (pc[c] = "ret" /\ op[c] = "request" /\ ~lrt_set[c])
        => (result[c] = "login_cooldown" /\ sends[c] = 0)

C6_Witness ==
    \E c \in Callers :
        /\ pc[c] = "ret"
        /\ op[c] = "request"
        /\ result[c] \in {"login_err", "login_err403"}
        /\ sends[c] = 0
        /\ lrt_set[c]

\* C7: whenever _make_request returns a 200 response, the stored backoff and
\* the consecutive-rejection counter are both 0.
C7_SuccessClearsBackoff ==
    \A c \in Callers :
        (pc[c] = "ret" /\ op[c] = "request" /\ result[c] = "resp200")
        => (rate_limit_backoff = 0 /\ consecutive_403s = 0)

\* the backoff C8 states: 1.5 times the previous one, at most 300 s, when
\* the previous rejection is less than 600 s old, and 30 s otherwise; next is
\* in sixteenths of a second and the factor is compared exactly
IsStatedBackoff(next, prev, since403) ==
    IF since403 # NoTime /\ since403 < 600
    THEN IF 3 * prev >= 2 * Secs(300)
         THEN next = Secs(300)
         ELSE 2 * next = 3 * prev
    ELSE next = Secs(30)

\* C8 as stated: each time _handle_rate_limit handles a rejection the backoff
\* becomes min(1.5 x previous, 300) within the 600 s window, else 30.
C8_BackoffRule ==
    [][\A c \in Callers :
          (pc[c] = "handle_rate_limit" /\ pc'[c] = "backoff_sleep")
          => IsStatedBackoff(rate_limit_backoff', rate_limit_backoff,
                             last_403_time)
      ]_vars

\* C8 amended: the stated rule gives the backoff while the counter, this
\* rejection included, is at most 3; above 3 the backoff is the larger of
\* the stated value and min(600, 60 x counter) seconds.
C8_BackoffRuleExtended ==
    [][\A c \in Callers :
          (pc[c] = "handle_rate_limit" /\ pc'[c] = "backoff_sleep")
          => /\ consecutive_403s' = consecutive_403s + 1
             /\ IF consecutive_403s' <= 3
                THEN IsStatedBackoff(rate_limit_backoff', rate_limit_backoff,
                                     last_403_time)
                ELSE LET ext == IF 60 * consecutive_403s' < 600
                                THEN Secs(60 * consecutive_403s')
                                ELSE Secs(600)
                     IN \/ /\ rate_limit_backoff' = ext
                           /\ \E b \in 0..ext :
                                IsStatedBackoff(b, rate_limit_backoff,
                                                last_403_time)
                        \/ /\ rate_limit_backoff' > ext
                           /\ IsStatedBackoff(rate_limit_backoff',
                                              rate_limit_backoff, last_403_time)
      ]_vars

C8_Witness ==
    \E c \in Callers :
        /\ pc[c] = "backoff_sleep"
        /\ consecutive_403s > 3
        /\ rate_limit_backoff = Secs(60 * consecutive_403s)
        /\ rate_limit_backoff > Secs(300)

\* C9 as stated: the stored backoff is at most 300 seconds.
C9_BackoffAtMost300 == rate_limit_backoff <= Secs(300)

\* C9 amended: the stored backoff is at most 600 seconds, the cap of the
\* extended backoff; the 300 second cap bounds the multiplicative growth only.
C9_BackoffAtMost600 == rate_limit_backoff <= Secs(600)

C9_Witness ==
    /\ rate_limit_backoff = Secs(300)
    /\ consecutive_403s <= 3
    /\ \E c \in Callers : pc[c] = "backoff_sleep"

\* C10: at most one caller is inside the body of login() at any time.
C10_LoginMutex ==
    \A c1, c2 \in Callers :
        (pc[c1] \in LoginBody /\ pc[c2] \in LoginBody) => c1 = c2

C10_Witness ==
    \E c1, c2 \in Callers :
        /\ c1 # c2
        /\ pc[c1] = "login_post"
        /\ login_lock = c1
        /\ pc[c2] = "login"

\* the statements of login() from session.cookies.clear() to its completion
LoginInFlight == {"login_enforce", "login_post"}

\* C11: no caller sends a target request through the shared session while
\* another caller's login() is between its cookie clearing and its completion.
C11_NoSendDuringLogin ==
    [][\A c1, c2 \in Callers :
          (c1 # c2 /\ pc[c1] = "send" /\ sends'[c1] = sends[c1] + 1)
          => pc[c2] \notin LoginInFlight
      ]_vars

\* C12: get_speed_test_status() never raises: it ends with a returned result,
\* and when no payload gave a usable record (every request failed with an HTTP
\* error, a network failure, a failed login or the login cooldown, or the
\* payloads were empty or malformed) the result is the empty one of the
\* configured shape.
C12_StatusNeverRaises ==
    \A c \in Callers :
        pc[c] = "status_ret" =>
            /\ status_result[c] \in {"empty", "data"}
            /\ ~usable[c] => status_result[c] = "empty"

\* every endpoint was tried and refused by the login cooldown
C12_Witness ==
    \E c \in Callers :
        /\ pc[c] = "status_ret"
        /\ status_result[c] = "empty"
        /\ stage[c] = "scan"
        /\ endpoint[c] > NumEndpoints("scan")
        /\ login_cooldown_until # NoTime
        /\ login_cooldown_until > 0

\* a step in which a login POST is accepted / is refused or fails
LoginSucceeds ==
    \E c \in Callers : pc[c] = "login_post" /\ login_result'[c] = "ok"
LoginFails ==
    \E c \in Callers :
        pc[c] = "login_post" /\ login_result'[c] \in {"err", "err403"}

\* C13 as stated: right after a successful login() the session is valid
\* (_is_login_valid, the spec's is_authenticated); it stops being valid only
\* in a step that completes the 1800 s since that login, is not valid once
\* they have passed, and becomes valid again only by a successful login.
C13_ValidForWindow ==
    [][ /\ LoginSucceeds => IsLoginValid'
        /\ (IsLoginValid /\ ~IsLoginValid') => last_login' = 1800
        /\ (~IsLoginValid /\ IsLoginValid') => LoginSucceeds
        /\ (last_login' # NoTime /\ last_login' < 1800) => IsLoginValid'
        /\ last_login' = 1800 => ~IsLoginValid'
      ]_vars

\* C13 amended: the same, but the session also stops being valid when a
\* later login attempt fails, which unsets _last_login.
C13_ValidForWindowOrFailure ==
    [][ /\ LoginSucceeds => IsLoginValid'
        /\ (IsLoginValid /\ ~IsLoginValid') =>
               \/ last_login' = 1800
               \/ LoginFails /\ last_login' = NoTime
        /\ LoginFails => ~IsLoginValid'
        /\ (~IsLoginValid /\ IsLoginValid') => LoginSucceeds
        /\ (last_login' # NoTime /\ last_login' < 1800) => IsLoginValid'
        /\ last_login' = 1800 => ~IsLoginValid'
      ]_vars

C13_Witness ==
    \E c \in Callers :
        /\ pc[c] = "login"
        /\ login_from[c] = "ensure"
        /\ last_login = 1800
        /\ ~IsLoginValid

\* C14: every successful login() sets last_login to the current time (age
\* 0), the failed-login counter to 0 and the cooldown to None, whatever they
\* were before.
C14_LoginSuccessResets ==
    [][LoginSucceeds =>
          /\ last_login' = 0
          /\ failed_login_count' = 0
          /\ login_cooldown_until' = NoTime
      ]_vars

\* a login accepted after an earlier login of the same call had failed
C14_Witness ==
    \E c \in Callers :
        /\ pc[c] = "login_done"
        /\ login_result[c] = "ok"
        /\ ~clean[c]
        /\ sends[c] = n403[c]
        /\ last_login = 0
        /\ failed_login_count = 0
        /\ login_cooldown_until = NoTime

\* C15: when _make_request (with a retry budget of at least 1) had every
\* attempt rejected with 403 and raises the error of the last one, the health
\* snapshot taken right after the call reports consecutive_403s >= 1 or
\* in_cooldown.
C15_RejectionInHealth ==
    [][\A c \in Callers :
          (/\ pc[c] = "ret"
           /\ op[c] = "request"
           /\ max_retries[c] >= 1
           /\ n403[c] = max_retries[c] + 1
           /\ result[c] = "err403"
           /\ pc'[c] = "idle")
          => \/ HealthStatus'.consecutive_403s >= 1
             \/ HealthStatus'.in_cooldown
      ]_vars

\* C16: get_health_status() changes no field of the client, makes no network
\* call, and reports the current counters, the current timestamps and
\* whether now < cooldown_until.
C16_HealthNoSideEffects ==
    [][\A c \in Callers :
          (pc[c] = "idle" /\ pc'[c] = "health_ret")
          => /\ UNCHANGED <<last_login, failed_login_count,
                            login_cooldown_until, consecutive_403s,
                            rate_limit_backoff, last_request_time,
                            last_403_time, cookies, login_lock, last_net>>
             /\ Len(health') = 1
             /\ LET h == health'[1]
                    cooling == /\ login_cooldown_until # NoTime
                               /\ login_cooldown_until > 0
                IN /\ h.in_cooldown = cooling
                   /\ h.can_connect = ~cooling
                   /\ h.consecutive_403s = consecutive_403s
                   /\ h.failed_login_count = failed_login_count
                   /\ h.last_login = last_login
                   /\ h.cooldown_until = login_cooldown_until
      ]_vars

C16_Witness ==
    \E c \in Callers :
        /\ pc[c] = "health_ret"
        /\ Len(health) = 1
        /\ health[1].in_cooldown
        /\ health[1].consecutive_403s >= 1
        /\ health[1].failed_login_count >= 3

\* C17: the primary WAN is the answer of the routing table when it has one;
\* else, on a UDM only, the answer of the network configuration when it has
\* one; else the answer of the measurement scoring when it has one; else the
\* first WAN detected (and None when no WAN was detected).
C17_TrustHierarchy ==
    (wan_pc = "done" /\ wan_layer = "determine") =>
        LET routing == FindPrimaryFromRouting(routing_info, wan_interfaces)
            config == IF controller_type = "udm"
                      THEN FindPrimaryFromNetworkConfig(network_config,
                                                        wan_interfaces)
                      ELSE NoKey
            scoring == FindPrimaryFromSpeedtestData(wan_interfaces)
        IN IF wan_interfaces = <<>> THEN primary_wan = NoKey
           ELSE /\ routing # NoKey => primary_wan = routing
                /\ (routing = NoKey /\ config # NoKey) => primary_wan = config
                /\ (routing = NoKey /\ config = NoKey /\ scoring # NoKey)
                       => primary_wan = scoring
                /\ (routing = NoKey /\ config = NoKey /\ scoring = NoKey)
                       => primary_wan = WanKey(wan_interfaces[1])

\* the configuration decides against a different answer of the scoring
C17_Witness ==
    /\ wan_pc = "done"
    /\ wan_layer = "determine"
    /\ controller_type = "udm"
    /\ FindPrimaryFromRouting(routing_info, wan_interfaces) = NoKey
    /\ FindPrimaryFromNetworkConfig(network_config, wan_interfaces) # NoKey
    /\ FindPrimaryFromSpeedtestData(wan_interfaces) # NoKey
    /\ FindPrimaryFromSpeedtestData(wan_interfaces) # primary_wan
    /\ primary_wan = FindPrimaryFromNetworkConfig(network_config, wan_interfaces)

\* C18: when two or more default routes match detected WANs, the routing
\* layer returns a WAN matched by a default route of the lowest metric among
\* them, whatever the order of the routes.
C18_LowestMetricRoute ==
    (wan_pc = "done" /\ wan_layer = "routing") =>
        LET WansOf(r) ==
                {w \in 1..Len(wan_interfaces) :
                    RouteMatch(routing_info[r].interface,
                               wan_interfaces[w].interface_name)}
            Matching == {r \in 1..Len(routing_info) :
                            IsDefaultRoute(routing_info[r]) /\ WansOf(r) # {}}
            Lowest == {r \in Matching :
                          \A q \in Matching :
                              routing_info[r].metric <= routing_info[q].metric}
        IN (/\ Cardinality(Matching) >= 2
            /\ \A r \in 1..Len(routing_info) : routing_info[r] # BadRoute) =>
              \E r \in Lowest : \E w \in WansOf(r) :
                  primary_wan = WanKey(wan_interfaces[w])

\* C19: when a WAN-purpose entry flagged primary matches a detected WAN, the
\* network-configuration layer returns a WAN matched by such an entry, wherever
\* the DHCP entries stand in the list.
C19_FlaggedPrimaryFirst ==
    (wan_pc = "done" /\ wan_layer = "netconf") =>
        LET WansOf(k) ==
                {w \in 1..Len(wan_interfaces) :
                    PrimaryMatch(network_config[k].interface,
                                 wan_interfaces[w].interface_name)}
            Flagged == {k \in 1..Len(network_config) :
                           /\ network_config[k].purpose_wan
                           /\ network_config[k].is_primary
                           /\ WansOf(k) # {}}
        IN (/\ Flagged # {}
            /\ \A k \in 1..Len(network_config) :
                   network_config[k] # BadConfig) =>
              \E k \in Flagged : \E w \in WansOf(k) :
                  primary_wan = WanKey(wan_interfaces[w])

\* the score C20 states; zero_counts tells whether a timestamp of 0 is a
\* present timestamp
StatedScore(wan, zero_counts) ==
    (IF wan.download # NoValue /\ wan.download > 0 THEN 10 ELSE 0)
    + (IF wan.upload # NoValue /\ wan.upload > 0 THEN 10 ELSE 0)
    + (IF wan.timestamp # NoValue /\ (zero_counts \/ wan.timestamp # 0)
       THEN 5 ELSE 0)

\* the scoring rule C20 states: None when no WAN has a score above 0, else a
\* WAN of the highest score and, among those, of the latest timestamp
StatedScoring(zero_counts) ==
    LET S(k) == StatedScore(wan_interfaces[k], zero_counts)
        T(k) == TimestampOrZero(wan_interfaces[k])
        Scored == {k \in 1..Len(wan_interfaces) : S(k) > 0}
        Top == {k \in Scored : \A q \in Scored : S(k) >= S(q)}
        Latest == {k \in Top : \A q \in Top : T(k) >= T(q)}
    IN IF Scored = {}
       THEN primary_wan = NoKey
       ELSE \E k \in Latest : primary_wan = WanKey(wan_interfaces[k])

\* C20 as stated: +10 for a positive download, +10 for a positive upload, +5
\* for a timestamp that is present (not None); WANs of score 0 are ignored;
\* the highest score wins and, among equal scores, the latest timestamp.
C20_ScoringLayer ==
    (wan_pc = "done" /\ wan_layer = "speedtest") =>
        StatedScoring(TRUE)

\* C20 amended: the same, the +5 being given for a timestamp that is present
\* and not zero.
C20_ScoringLayerNonZero ==
    (wan_pc = "done" /\ wan_layer = "speedtest") =>
        StatedScoring(FALSE)

\* two WANs of score 25, the later one in the dictionary with the later
\* timestamp
C20_Witness ==
    /\ wan_pc = "done"
    /\ wan_layer = "speedtest"
    /\ Len(wan_interfaces) = 2
    /\ Score(wan_interfaces[1]) = 25
    /\ Score(wan_interfaces[2]) = 25
    /\ wan_interfaces[2].timestamp > wan_interfaces[1].timestamp
    /\ primary_wan = WanKey(wan_interfaces[2])

\* C21: for a non-empty wan_interfaces the primary-WAN determination does not
\* raise and returns the key of one of the interfaces, whatever the routing
\* and configuration fetches gave (nothing, or a list with an element the
\* parsing raises on); when routing, configuration and scoring all give no
\* answer, it returns the key of the first interface.
C21_AlwaysADetectedKey ==
    (wan_pc = "done" /\ wan_layer = "determine" /\ wan_interfaces # <<>>) =>
        /\ primary_wan # Raised
        /\ \E w \in 1..Len(wan_interfaces) :
               primary_wan = WanKey(wan_interfaces[w])
        /\ (/\ FindPrimaryFromRouting(routing_info, wan_interfaces) = NoKey
            /\ \/ controller_type = "controller"
               \/ FindPrimaryFromNetworkConfig(network_config,
                                               wan_interfaces) = NoKey
            /\ FindPrimaryFromSpeedtestData(wan_interfaces) = NoKey)
           => primary_wan = WanKey(wan_interfaces[1])

\* two interfaces, a routing list and a configuration list whose parsing
\* raises, no measurement: the first interface is returned
C21_Witness ==
    /\ wan_pc = "done"
    /\ wan_layer = "determine"
    /\ controller_type = "udm"
    /\ Len(wan_interfaces) = 2
    /\ routing_info = <<BadRoute>>
    /\ network_config = <<BadConfig>>
    /\ \A w \in 1..2 : wan_interfaces[w].download = NoValue
    /\ primary_wan = WanKey(wan_interfaces[1])

\* the legacy call returned from inside the loop, at a history endpoint
LegacyFromHistoryEndpoint ==
    /\ norm.pc = "done"
    /\ ~enable_multi_wan
    /\ norm.endpoint <= Len(answers)
    /\ EndpointKinds[norm.endpoint] = "history"

\* C22: a legacy result that comes from a history endpoint is what the last
\* entry of the returned sequence gives, whatever stands before it.
C22_LastEntryOnly ==
    LegacyFromHistoryEndpoint =>
        LET data == answers[norm.endpoint].data
        IN norm.result = LegacyAnswer("history", Ok(<<data[Len(data)]>>))

\* a sequence of two entries that give different results: the second decides
C22_Witness ==
    /\ LegacyFromHistoryEndpoint
    /\ LET data == answers[norm.endpoint].data
       IN /\ Len(data) = 2
          /\ data[1] # BadEntry
          /\ LegacyFromHistory(data[1]) # LegacyFromHistory(data[2])
          /\ norm.result = <<LegacyFromHistory(data[2])>>

\* the payload of endpoint i has a record the extraction of the shape and the
\* dialect can use: any entry of a history (legacy), the 'www' subsystem
\* (legacy), an entry with an interface name, a WAN subsystem
UsableRecord(i, entry) ==
    /\ entry # BadEntry
    /\ CASE ~enable_multi_wan /\ EndpointKinds[i] = "history" -> TRUE
         [] ~enable_multi_wan /\ EndpointKinds[i] = "health" ->
                entry.subsystem = SubWww
         [] enable_multi_wan /\ EndpointKinds[i] = "history" ->
                entry.interface_name # <<>> \/ entry.interface # <<>>
         [] OTHER -> entry.subsystem \in {SubWww, SubWan2}

YieldsUsable(i) ==
    /\ answers[i].ok
    /\ \E k \in 1..Len(answers[i].data) : UsableRecord(i, answers[i].data[k])

\* the endpoints 1..n were requested in this order, none of the first n - 1
\* stopped the scan, and the n-th did unless it is the last of the list
RequestedUpToFirst(n, stopping) ==
    /\ norm.requested = [i \in 1..n |-> i]
    /\ \A i \in 1..(n - 1) : i \notin stopping
    /\ n < Len(answers) => n \in stopping

\* C23 as stated: the endpoints are requested in the order of the list up to
\* and including the first one whose payload yields a usable record, and all
\* of them when there is none.
C23_StopsAtFirstUsable ==
    norm.pc = "done" =>
        RequestedUpToFirst(Len(norm.requested),
                           {i \in 1..Len(answers) : YieldsUsable(i)})

\* the payload of endpoint i is worked through without an exception up to
\* the point where the loop is left: the last entry of a history is a
\* dictionary (legacy), no element before the 'www' subsystem raises
\* (legacy), no element raises (multi-WAN)
WorkedThrough(i) ==
    LET data == answers[i].data IN
    /\ answers[i].ok
    /\ data # <<>>
    /\ CASE ~enable_multi_wan /\ EndpointKinds[i] = "history" ->
                data[Len(data)] # BadEntry
         [] ~enable_multi_wan /\ EndpointKinds[i] = "health" ->
                \E k \in 1..Len(data) :
                    /\ data[k].subsystem = SubWww
                    /\ \A j \in 1..k : data[j] # BadEntry
         [] OTHER -> \A k \in 1..Len(data) : data[k] # BadEntry

\* a record of endpoint j is taken before an element of its payload raises
TakenFrom(j) ==
    /\ answers[j].ok
    /\ \E k \in 1..Len(answers[j].data) :
           /\ UsableRecord(j, answers[j].data[k])
           /\ \A q \in 1..k : answers[j].data[q] # BadEntry

\* C23 amended: the scan stops at the first endpoint whose payload is worked
\* through without an exception and, in the multi-WAN shape, at which a
\* record has been taken from it or from an endpoint before it; an endpoint
\* whose payload raises part-way counts as failed, also when records were
\* taken from it.
C23_StopsAtFirstWorkedThrough ==
    norm.pc = "done" =>
        RequestedUpToFirst(
            Len(norm.requested),
            {i \in 1..Len(answers) :
                /\ WorkedThrough(i)
                /\ enable_multi_wan => \E j \in 1..i : TakenFrom(j)})

\* the first endpoint fails, the second has a usable record, a third exists
\* and is not requested
C23_Witness ==
    /\ norm.pc = "done"
    /\ Len(answers) = 3
    /\ ~answers[1].ok
    /\ YieldsUsable(2)
    /\ \A k \in 1..Len(answers[2].data) : answers[2].data[k] # BadEntry
    /\ norm.requested = <<1, 2>>

\* the values of a history entry under the primary names of the dialect and
\* under the other names
PrimaryFields(entry) ==
    IF controller_type = "udm"
    THEN <<entry.download_mbps, entry.upload_mbps, entry.latency_ms>>
    ELSE <<entry.xput_down, entry.xput_up, entry.speedtest_ping>>

FallbackFields(entry) ==
    IF controller_type = "udm"
    THEN <<entry.xput_down, entry.xput_up, entry.speedtest_ping>>
    ELSE <<entry.download_mbps, entry.upload_mbps, entry.latency_ms>>

\* download, upload and latency of a normalized record
Normalized(record) == <<record.download, record.upload, record.ping>>

\* where the primary name is absent and the other name is present, the
\* normalized value is the number under the other name
FromFallback(entry, record) ==
    \A m \in 1..3 :
        (PrimaryFields(entry)[m] = Absent /\ FallbackFields(entry)[m] >= 0)
            => Normalized(record)[m] = FallbackFields(entry)[m]

\* C24: in both dialects and both shapes, a value of a history entry whose
\* primary field name is absent is taken from the fallback field name.
C24_FallbackFieldUsed ==
    /\ LegacyFromHistoryEndpoint =>
           LET data == answers[norm.endpoint].data
           IN FromFallback(data[Len(data)], norm.result[1])
    /\ (/\ norm.pc = "done"
        /\ enable_multi_wan
        /\ norm.requested = <<1>>
        /\ Len(answers[1].data) = 1
        /\ Len(wan_interfaces) = 1)
       => FromFallback(answers[1].data[1], wan_interfaces[1])

\* (interface identifier, network-group label) of a record
Pair(wan) == <<wan.interface_name, wan.wan_networkgroup>>

\* the places <<endpoint, index>> of the raw records the scan has taken, and
\* the record made of the one at place p
TakenPlaces ==
    {p \in (1..Len(answers)) \X (1..(MaxEntries + 1)) :
        /\ \E q \in 1..Len(norm.requested) : norm.requested[q] = p[1]
        /\ answers[p[1]].ok
        /\ p[2] <= Len(answers[p[1]].data)
        /\ UsableRecord(p[1], answers[p[1]].data[p[2]])
        /\ \A q \in 1..p[2] : answers[p[1]].data[q] # BadEntry}

MadeOf(p) ==
    IF EndpointKinds[p[1]] = "history"
    THEN WanFromHistory(answers[p[1]].data[p[2]])
    ELSE WanFromHealth(answers[p[1]].data[p[2]])

Later(p, q) == p[1] > q[1] \/ (p[1] = q[1] /\ p[2] >= q[2])

\* C25: no two records of a multi-WAN result have the same (interface
\* identifier, network-group label) pair; each record is made of the last raw
\* record with its pair; total_interfaces is the number of records.
C25_PairsUnique ==
    (norm.pc = "done" /\ enable_multi_wan) =>
        LET res == norm.result[1]
            wans == res.wan_interfaces
        IN /\ \A a, b \in 1..Len(wans) :
                  a # b => Pair(wans[a]) # Pair(wans[b])
           /\ res.total_interfaces = Len(wans)
           /\ \A a \in 1..Len(wans) :
                  \E p \in TakenPlaces :
                      /\ MadeOf(p) = wans[a]
                      /\ \A q \in TakenPlaces :
                             Pair(MadeOf(q)) = Pair(wans[a]) => Later(p, q)

\* two raw records with one pair and different values came in: one record,
\* with the values of the later
C25_Witness ==
    /\ norm.pc = "done"
    /\ enable_multi_wan
    /\ \E p, q \in TakenPlaces :
           /\ p # q
           /\ Later(p, q)
           /\ Pair(MadeOf(p)) = Pair(MadeOf(q))
           /\ MadeOf(p) # MadeOf(q)
           /\ \E a \in 1..Len(norm.result[1].wan_interfaces) :
                  norm.result[1].wan_interfaces[a] = MadeOf(p)
    /\ norm.result[1].total_interfaces = 1

\* C26: two calls of get_speed_test_status() in a row, against a backend that
\* answers every request the same way both times, return the same result.
C26_SameResultTwice ==
    twice.calls = 2 => twice.results[1] = twice.results[2]

\* C26 amended: they return the same result when the backend accepts the
\* login POST.
C26_SameResultWhenLoginAccepted ==
    (twice.calls = 2 /\ twice.backend.login = "ok") =>
        twice.results[1] = twice.results[2]

\* both calls took their result from the second status endpoint after the
\* first one was refused with 403
C26_Witness ==
    /\ twice.calls = 2
    /\ twice.backend.login = "ok"
    /\ twice.backend.first = "403"
    /\ twice.results[1].result = "data"
    /\ <<"scan", 2>> \in twice.results[1].sources
    /\ twice.results[2] = twice.results[1]

\* the counters of a tracker
Counters(t) ==
    <<t.total_attempts, t.automated_attempts, t.manual_attempts,
      t.successful_runs, t.automated_successes, t.manual_successes,
      t.failed_runs, t.automated_failures, t.manual_failures>>

\* C27: after any sequence of record_attempt / record_success /
\* record_failure calls, saving the tracker and loading the saved data into
\* a fresh tracker gives the same counters, and a failure-reason list that is
\* the last 10 entries of the saved tracker's list.
C27_SaveLoadRoundTrip ==
    (store.pc = "loaded" /\ store.data # <<>>) =>
        LET list == speed_test_tracker.failure_reasons
            kept == Min(Len(list), 10)
        IN  /\ Counters(store.fresh[1]) = Counters(speed_test_tracker)
            /\ Len(store.fresh[1].failure_reasons) = kept
            /\ \A i \in 1..kept :
                   store.fresh[1].failure_reasons[i] =
                       list[Len(list) - kept + i]

\* a tracker with more than 10 failure reasons, whose oldest is not like the
\* oldest one kept, and with attempts and successes, was saved and loaded
C27_Witness ==
    /\ store.pc = "loaded"
    /\ store.data # <<>>
    /\ Len(speed_test_tracker.failure_reasons) > 10
    /\ speed_test_tracker.failure_reasons[1] #
           speed_test_tracker.failure_reasons[2]
    /\ store.fresh[1].failure_reasons[1] =
           speed_test_tracker.failure_reasons[2]
    /\ speed_test_tracker.automated_failures > 10
    /\ speed_test_tracker.manual_attempts > 0
    /\ speed_test_tracker.successful_runs > 0

\* the calls of the latest run of h from its record_attempt on
FromAttempt(h) ==
    LET calls == runs[h].calls
        first == {i \in 1..Len(calls) : calls[i].call = "attempt"}
    IN  IF first = {} THEN <<>>
        ELSE SubSeq(calls, CHOOSE i \in first : \A j \in first : i <= j,
                    Len(calls))

\* the run of h recorded an attempt and nothing after it so far
AttemptOpen(h) == Len(FromAttempt(h)) = 1

\* the run of h recorded an attempt and, after it, one record_success or one
\* record_failure
AttemptSettled(h) ==
    /\ Len(FromAttempt(h)) = 2
    /\ FromAttempt(h)[2].call \in {"success", "failure"}
    /\ FromAttempt(h)[2].automated = FromAttempt(h)[1].automated

\* C28: in the scheduled runner and in the manual service handler every
\* record_attempt is followed by exactly one record_success or
\* record_failure of the same run and the same kind (automated or manual),
\* whether api.start_speed_test returns or raises, also when a scheduled run
\* and a manual run interleave: never more than one, and in the end one.
C28_AttemptThenOneOutcome ==
    /\ [](\A h \in RunHandlers :
              /\ FromAttempt(h) # <<>> => AttemptOpen(h) \/ AttemptSettled(h)
              /\ (FromAttempt(h) # <<>> /\ runs[h].pc = "idle") =>
                     AttemptSettled(h))
    /\ \A h \in RunHandlers : AttemptOpen(h) ~> AttemptSettled(h)

\* the manual run began and failed while the attempt of the scheduled run was
\* open, and the scheduled run then succeeded
C28_Witness ==
    /\ runs["scheduled"].calls =
           <<[call |-> "attempt", automated |-> TRUE, at |-> 1],
             [call |-> "success", automated |-> TRUE, at |-> 4]>>
    /\ runs["manual"].calls =
           <<[call |-> "attempt", automated |-> FALSE, at |-> 2],
             [call |-> "failure", automated |-> FALSE, at |-> 3]>>
    /\ speed_test_tracker.automated_attempts = 1
    /\ speed_test_tracker.automated_successes = 1
    /\ speed_test_tracker.manual_attempts = 1
    /\ speed_test_tracker.manual_failures = 1

\* the rule as the statement gives it
TieredRule(s) ==
    IF s <= 30 THEN Max(10, s \div 3)
    ELSE IF s <= 60 THEN Max(15, s \div 2)
    ELSE Max(20, s \div 3)

C30_PollsMoreOftenThanTests ==
    (/\ polling.pc \in {"setup", "info"}
     /\ polling.enable_scheduling
     /\ polling.schedule_interval \in 15..1440) =>
        polling.update_interval < polling.schedule_interval

\* an entry whose polling interval equals its schedule interval was set up
\* with the calculated interval
C30_Witness ==
    /\ polling.pc = "setup"
    /\ polling.enable_scheduling
    /\ polling.schedule_interval = 90
    /\ polling.polling_interval = 90
    /\ polling.update_interval = 30

\* the call in progress was refused at its first test: no endpoint list and
\* no payload list was entered
Skipped(c) == pc[c] \in {"status_ret", "start_ret"} /\ stage[c] = "none"

\* C31: while consecutive_403s is greater than 3, get_speed_test_status()
\* returns the empty result and start_speed_test() raises; between the call
\* and its return nothing is sent (no login, no request) and no field of the
\* client changes.
C31_SkipWithoutNetworkOrChange ==
    [][/\ (pc[1] = "status" /\ consecutive_403s > 3) =>
              /\ pc'[1] = "status_ret"
              /\ status_result'[1] = "empty"
              /\ stage'[1] = "none"
              /\ UNCHANGED <<apiVars, last_net>>
       /\ (pc[1] = "start" /\ consecutive_403s > 3) =>
              /\ pc'[1] = "start_ret"
              /\ status_result'[1] = "raised"
              /\ stage'[1] = "none"
              /\ UNCHANGED <<apiVars, last_net>>
       /\ Skipped(1) =>
              /\ pc'[1] = "idle"
              /\ UNCHANGED <<apiVars, last_net>>]_vars

\* start_speed_test() is about to raise with the counter above 3, a session
\* and an earlier network call
C31_Witness ==
    /\ Skipped(1)
    /\ op[1] = "start"
    /\ status_result[1] = "raised"
    /\ consecutive_403s > 3
    /\ last_net # NoTime

\* C32: once a poll has obtained values, a later poll that obtains none (the
\* backend fails, refuses or times out, the client is in cooldown or skips
\* the request after too many 403s) leaves the earlier values in the
\* coordinator: its data never go back to absent values.
C32_KeepsEarlierValues ==
    coordinator.seen => coordinator.data = "data"

\* C33: after any sequence of setups and successful unloads of config
\* entries, the two services are registered exactly when at least one entry
\* is loaded; unloading the last entry removes them, also when scheduling was
\* enabled for it.
C33_ServicesIffLoaded ==
    hass.services <=> hass.loaded # {}

\* C34: for each schedule interval listed in POLLING_EXAMPLES, the polling
\* interval calculated for an entry with scheduling and without a stored
\* polling interval equals the polling value of the table.
C34_ExamplesGiveCalculated ==
    (/\ polling.pc = "setup"
     /\ polling.enable_scheduling
     /\ polling.polling_interval = NoValue
     /\ polling.schedule_interval \in DOMAIN POLLING_EXAMPLES) =>
        polling.update_interval = POLLING_EXAMPLES[polling.schedule_interval]

\* C35: the circuit breaker recovers: from a state in which the counter of
\* consecutive 403s is above its maximum and no call is in progress (the
\* backend is asked nothing any more, so it refuses nothing), the polling
\* cycle brings the counter back to 0.
C35_CounterRecovers ==
    (consecutive_403s > max_consecutive_403s /\ pc[1] = "idle")
        ~> (consecutive_403s = 0)

\* C36: every time _handle_rate_limit handles a rejection, the backoff it
\* sets, before the jitter, is at least the base value of 30 seconds.
C36_BackoffAtLeastBase ==
    \A c \in Callers :
        pc[c] = "backoff_sleep" => rate_limit_backoff >= Secs(30)

\* C37: with a single caller, between two public operations, a client that
\* holds a session (last_login is set) has no failed login counted, no
\* consecutive 403 counted and no login cooldown set.
C37_SessionMeansCleanCounters ==
    (pc[1] = "idle" /\ last_login # NoTime) =>
        /\ failed_login_count = 0
        /\ consecutive_403s = 0
        /\ login_cooldown_until = NoTime

\* a session is held between two operations after a 403 was handled
C37_Witness ==
    /\ pc[1] = "idle"
    /\ last_login # NoTime
    /\ last_403_time # NoTime
    /\ rate_limit_backoff > 0

\* C38: in every state of the tracker driven by the scheduled runner and the
\* manual service handler, successful_runs + failed_runs <= total_attempts:
\* no outcome is recorded without a recorded attempt.
C38_OutcomesWithinAttempts ==
    speed_test_tracker.successful_runs + speed_test_tracker.failed_runs
        <= speed_test_tracker.total_attempts

\* C39: a multi-WAN sensor created for interface X and network group G
\* reports on every later poll the value of the interface record whose
\* (interface_name, wan_networkgroup) is (X, G), or no value when that
\* interface is not in the result, whatever the order and number of the
\* interfaces of the result.
C39_SensorFollowsItsInterface ==
    entities.pc = "ready" =>
        \A i \in 1..Len(entities.sensors) :
            SensorState(entities.sensors[i], coordinator.data) =
                SensorStateByKey(entities.sensors[i], coordinator.data)

\* the sensors that report is_primary_wan = true for the result of the poll
ReportedPrimary ==
    {i \in 1..Len(entities.sensors) :
        /\ entities.sensors[i].wan_index < Len(coordinator.data.wan_interfaces)
        /\ DetermineIsPrimaryWan(entities.sensors[i], coordinator.data)}

\* C40: whenever a multi-WAN poll result has a non-null primary_wan, exactly
\* one of the detected WAN interfaces is reported as primary by the
\* per-interface sensors, and it is the interface whose key is primary_wan;
\* stated for the poll the sensors were created from, when the sensors are
\* those of the detected interfaces.
C40_OnePrimaryReported ==
    (/\ entities.pc = "ready"
     /\ entities.sensors = CreateSensors(coordinator.data)
     /\ coordinator.data.primary_wan # NoKey) =>
        /\ Cardinality(ReportedPrimary) = 1
        /\ \A i \in ReportedPrimary :
               WanKey(coordinator.data.wan_interfaces[i]) =
                   coordinator.data.primary_wan

========================================================================
